---- MODULE Spec2Model ----
(***************************************************************************)
(* Blossom build tools: dependency graphs and the ordering of files and    *)
(* packages (BT.Package, BT.Packager, BT.Target).                          *)
(*                                                                         *)
(* SpecFiles    one ordering scope (the files of a package or of a target) *)
(*              and the two operations that order it.                      *)
(* SpecPackager one packager: construction (ids, promotion, package        *)
(*              order), findPackage and the manifest.                      *)
(* SpecBuilds   two independent constructions of the same tree.            *)
(* SpecBundle   the core bundle and the manifest of one packager.          *)
(* SpecTree     a project tree: Project.init, the find methods, rootNode.  *)
(* SpecFrameworks  orderedFrameworks of the targets of a project.          *)
(* SpecBuild    Project.build: the files written for every app.            *)
(* SpecSurfaces SC.CompositeSurface: subsurfaces and its observer.         *)
(* SpecLayout   SC.Layer.updateLayoutRules on a layout hash.               *)
(* SpecContent  a view with the SC.ContentDisplay mixin.                   *)
(***************************************************************************)
EXTENDS Integers, Sequences, FiniteSets, TLC

VARIABLES
  scope,      \* the files of the ordering scope, in enumeration order
  fileOp,     \* the last file-ordering operation and what it produced
  fsPackages, \* the package directories of the packager, in enumeration order
  packager,   \* per process run: the constructed packager
  found,      \* the last findPackage call and its result
  outputs,    \* per process run: what the generated index document holds
  tree,       \* the build nodes of a project tree, by node id
  call,       \* the last operation on the project tree and what it produced
  disk,       \* the output directories and files of a build
  surface,    \* a composite surface, its collections and their surfaces
  layer,      \* a layout hash and what updateLayoutRules did with it
  view        \* a view with the ContentDisplay mixin and its contents

vars == <<scope, fileOp, fsPackages, packager, found, outputs, tree, call, disk,
          surface, layer, view>>

(***************************************************************************)
(* Bounds.                                                                 *)
(***************************************************************************)
MaxRequires == 1      \* sc_require declarations per file
MaxDependencies == 1  \* entries of "dependencies" in one package.json

Range(s) == {s[i] : i \in 1..Len(s)}

\* Then(value), with `value` computed once.
With(value, Then(_)) == CHOOSE result \in {Then(v) : v \in {value}} : TRUE

(***************************************************************************)
(* utils/graph: the directed graph and its topological sort.               *)
(* A graph is [vertices |-> sequence in insertion order, edges |-> set of  *)
(* <<from, to>>], "from before to".                                        *)
(***************************************************************************)
NewGraph == [vertices |-> <<>>, edges |-> {}]

addVertex(g, id) ==
  IF id \in Range(g.vertices) THEN g
  ELSE [g EXCEPT !.vertices = Append(@, id)]

addEdge(g, from, to) ==
  [addVertex(addVertex(g, from), to) EXCEPT !.edges = @ \cup {<<from, to>>}]

\* Remove the element at position i.
RemoveAt(s, i) == SubSeq(s, 1, i - 1) \o SubSeq(s, i + 1, Len(s))

\* The vertices still to place, in insertion order; out is the order so far.
\* A vertex is placed once no edge reaches it from a vertex still to place
\* (itself included); the first such vertex in insertion order goes next.
RECURSIVE SortRemaining(_, _, _)
SortRemaining(todo, edges, out) ==
  IF todo = <<>> THEN [error |-> "none", order |-> out]
  ELSE LET ready == {i \in 1..Len(todo) :
                       \A e \in edges : e[2] = todo[i] => e[1] \notin Range(todo)}
       IN IF ready = {} THEN [error |-> "CycleError", order |-> <<>>]
          ELSE LET i == CHOOSE k \in ready : \A m \in ready : k <= m
               IN SortRemaining(RemoveAt(todo, i), edges, Append(out, todo[i]))

topologicalSort(g) == SortRemaining(g.vertices, g.edges, <<>>)

(***************************************************************************)
(* Files.  A file of the scope is [name |-> [stem, ext], requires |-> the  *)
(* sc_require arguments in the order they appear in its contents].         *)
(***************************************************************************)
ScriptNames ==
  { [stem |-> "core", ext |-> "js"],
    [stem |-> "a",    ext |-> "js"],
    [stem |-> "a",    ext |-> "coffee"],
    [stem |-> "b",    ext |-> "js"] }

\* What a file may name in sc_require: the stems above and a path that
\* matches no file.
RequireNames == {"core", "a", "b", "zz"}

\* BT.Package.requirePath / BT.PackageFile.requirePath: the package's source
\* tree below the parent (target) source tree, as path segments.
requirePath(package) == <<"packages", package.basename>>

isJavaScript(file) == file.name.ext = "js"
isCoffeeScript(file) == file.name.ext = "coffee"

\* BT.File.relativePath: the source path below the target's source tree.
relativePath(file) ==
  [dir |-> <<>>, stem |-> file.name.stem, ext |-> file.name.ext]

\* BT.PackageFile.relativePath: the source path below the *parent* source
\* tree, so it starts with the package's own path.
packageRelativePath(package, file) ==
  [dir |-> requirePath(package), stem |-> file.name.stem, ext |-> file.name.ext]

\* relativePath.slice(0, -3) / slice(0, -7): the path without its extension.
dropExtension(rel) == [dir |-> rel.dir, stem |-> rel.stem]

\* path.join(dir, name)
pathJoin(dir, name) == [dir |-> dir, stem |-> name]

\* BT.File.scRequireDependencies: the names as written.
scRequireDependencies(file) ==
  [i \in 1..Len(file.requires) |-> pathJoin(<<>>, file.requires[i])]

\* BT.PackageFile.scRequireDependencies: each name re-rooted at the package.
packageScRequireDependencies(package, file) ==
  [i \in 1..Len(file.requires) |->
     pathJoin(requirePath(package), file.requires[i])]

\* map[key] = value on an object used as a dictionary: a later write under
\* the same key replaces the earlier one.
MapPut(map, key, value) == {p \in map : p[1] # key} \cup {<<key, value>>}
MapHas(map, key) == \E p \in map : p[1] = key
MapGet(map, key) == (CHOOSE p \in map : p[1] = key)[2]

\* g.addEdge(name, dependencyPath) for each declared dependency, in order.
RECURSIVE addDependencyEdges(_, _, _, _)
addDependencyEdges(g, dependencies, to, i) ==
  IF i > Len(dependencies) THEN g
  ELSE addDependencyEdges(addEdge(g, dependencies[i], to), dependencies, to, i + 1)

(***************************************************************************)
(* BT.Package.orderFiles                                                   *)
(***************************************************************************)
corePath(package) == pathJoin(requirePath(package), "core")

\* The body of files.forEach: one file added to the graph and the map.
packageAddFile(package, acc, file) ==
  LET dependencyPath == dropExtension(packageRelativePath(package, file))
      g1 == addVertex(acc.g, dependencyPath)
      g2 == addDependencyEdges(g1, packageScRequireDependencies(package, file),
                               dependencyPath, 1)
  IN [g   |-> addEdge(g2, corePath(package), dependencyPath),
      map |-> MapPut(acc.map, dependencyPath, file)]

RECURSIVE packageGraph(_, _, _, _)
packageGraph(package, files, acc, i) ==
  IF i > Len(files) THEN acc
  ELSE packageGraph(package, files, packageAddFile(package, acc, files[i]), i + 1)

\* sortedVertices.forEach: the files of the mapped vertices, in order.
RECURSIVE mappedFiles(_, _, _)
mappedFiles(sorted, map, i) ==
  IF i > Len(sorted) THEN <<>>
  ELSE (IF MapHas(map, sorted[i]) THEN <<MapGet(map, sorted[i])>> ELSE <<>>)
       \o mappedFiles(sorted, map, i + 1)

\* sortedVertices.forEach: the diagnostics, one per unmapped vertex that is
\* not the package's core path.
RECURSIVE packageDiagnostics(_, _, _, _)
packageDiagnostics(package, sorted, map, i) ==
  IF i > Len(sorted) THEN <<>>
  ELSE (IF MapHas(map, sorted[i]) \/ sorted[i] = corePath(package) THEN <<>>
        ELSE <<sorted[i]>>)
       \o packageDiagnostics(package, sorted, map, i + 1)

\* orderFiles with the sort's failure caught: the files as enumerated.
orderFilesCatchingCycle(package, files) ==
  LET built  == packageGraph(package, files, [g |-> NewGraph, map |-> {}], 1)
      sorted == topologicalSort(built.g)
  IN IF sorted.error # "none"
     THEN [error |-> "none", ret |-> files, log |-> <<>>]
     ELSE [error |-> "none",
           ret   |-> mappedFiles(sorted.order, built.map, 1),
           log   |-> packageDiagnostics(package, sorted.order, built.map, 1)]

orderFiles(package, files) ==
  LET built  == packageGraph(package, files, [g |-> NewGraph, map |-> {}], 1)
      sorted == topologicalSort(built.g)
  IN IF sorted.error # "none"
     THEN [error |-> sorted.error, ret |-> <<>>, log |-> <<>>]
     ELSE [error |-> "none",
           ret   |-> mappedFiles(sorted.order, built.map, 1),
           log   |-> packageDiagnostics(package, sorted.order, built.map, 1)]

(***************************************************************************)
(* BT.Target.orderedJavaScriptFiles                                        *)
(***************************************************************************)
\* relativePath.slice(0,4) === "test" / "node", relativePath.match(/test_suite/)
isTestOrNodePath(rel) == rel.stem \in {"tests/t"}

keepForTarget(file) ==
  /\ ~isTestOrNodePath(relativePath(file))
  /\ (isJavaScript(file) \/ isCoffeeScript(file))

targetAddFile(acc, file) ==
  LET dependencyPath == dropExtension(relativePath(file))
      g1 == addVertex(acc.g, dependencyPath)
      g2 == addDependencyEdges(g1, scRequireDependencies(file),
                               dependencyPath, 1)
  IN [g   |-> addEdge(g2, pathJoin(<<>>, "core"), dependencyPath),
      map |-> MapPut(acc.map, dependencyPath, file)]

RECURSIVE targetGraph(_, _, _)
targetGraph(files, acc, i) ==
  IF i > Len(files) THEN acc
  ELSE targetGraph(files, targetAddFile(acc, files[i]), i + 1)

\* One diagnostic per unmapped vertex; the target makes no exception for
\* its entry vertex.
RECURSIVE targetDiagnostics(_, _, _)
targetDiagnostics(sorted, map, i) ==
  IF i > Len(sorted) THEN <<>>
  ELSE (IF MapHas(map, sorted[i]) THEN <<>> ELSE <<sorted[i]>>)
       \o targetDiagnostics(sorted, map, i + 1)

\* corePackageFiles is what orderedCorePackageFiles yields for the target:
\* [error, ret]; <<>> for a target without a packages directory.
orderedJavaScriptFiles(files, corePackageFiles) ==
  LET ary    == SelectSeq(files, keepForTarget)
      built  == targetGraph(ary, [g |-> NewGraph, map |-> {}], 1)
      sorted == topologicalSort(built.g)
  IN IF sorted.error # "none"
     THEN [error |-> sorted.error, ret |-> <<>>, log |-> <<>>]
     ELSE IF corePackageFiles.error # "none"
     THEN [error |-> corePackageFiles.error, ret |-> <<>>,
           log |-> targetDiagnostics(sorted.order, built.map, 1)]
     ELSE [error |-> "none",
           ret   |-> mappedFiles(sorted.order, built.map, 1)
                     \o corePackageFiles.ret,
           log   |-> targetDiagnostics(sorted.order, built.map, 1)]

NoPackager == [error |-> "none", ret |-> <<>>]

(***************************************************************************)
(* BT.Packager.  A packager is [packages |-> the packages it holds, in the *)
(* order its properties enumerate]; a package is [uuid, nodeName,          *)
(* basename, type, dependencies, files].                                   *)
(***************************************************************************)
PackageTypes == {"core", "lazy", "demand"}

\* Properties every packager has besides the packages stored under their
\* ids, with a value that is not a package (isPackager: true).
PackagerProperties == {"isPackager"}

\* The vertex an unresolved dependency is given: the key of `undefined`.
Undefined == "undefined"

NotFound == [kind |-> "none", index |-> 0]

\* this.get(key) on the packager: the package stored under that id, another
\* property's value, or undefined.
packagerGet(packages, key) ==
  IF \E i \in DOMAIN packages : packages[i].uuid = key
  THEN [kind |-> "package",
        index |-> CHOOSE i \in DOMAIN packages : packages[i].uuid = key]
  ELSE IF key \in PackagerProperties
  THEN [kind |-> "other", index |-> 0]
  ELSE NotFound

\* packages.find(...): the first package, in enumeration order, with that
\* basename.
findByBasename(packages, key) ==
  LET hits == {i \in DOMAIN packages : packages[i].basename = key}
  IN IF hits = {} THEN NotFound
     ELSE [kind |-> "package",
           index |-> CHOOSE i \in hits : \A j \in hits : i <= j]

findPackage(packages, uuid) ==
  LET ret == packagerGet(packages, uuid)
  IN IF ret.kind = "none" THEN findByBasename(packages, uuid) ELSE ret

\* promoteDependency testing for a lazy dependency rather than a non-core one.
promoteLazyDependency(st, i, j) ==
  IF st.packages[i].type = "core" /\ st.packages[j].type = "lazy"
  THEN [st EXCEPT !.packages[j].type = "core",
                  !.log = Append(@, [msg |-> "forcing non-core dependency to core",
                                     package |-> st.packages[j].basename])]
  ELSE st

\* A core package's dependency that is not core is forced to core, with a
\* diagnostic.  st is [packages, g, log, error].
promoteDependency(st, i, j) ==
  IF st.packages[i].type = "core" /\ st.packages[j].type # "core"
  THEN [st EXCEPT !.packages[j].type = "core",
                  !.log = Append(@, [msg |-> "forcing non-core dependency to core",
                                     package |-> st.packages[j].basename])]
  ELSE st

\* resolveDependency with the edge's ends exchanged.
resolveDependencyEdgeReversed(st, i, dependency) ==
  LET name == st.packages[i].nodeName
      hit  == findPackage(st.packages, dependency)
  IN IF st.error # "none" THEN st
     ELSE IF hit.kind = "package"
     THEN LET st1 == promoteDependency(st, i, hit.index)
          IN [st1 EXCEPT !.g = addEdge(@, name, st1.packages[hit.index].uuid)]
     ELSE IF hit.kind = "other"
     THEN [st EXCEPT !.error = "TypeError"]
     ELSE [st EXCEPT !.log = Append(@, [msg |-> "couldn't find dependency",
                                        package |-> dependency]),
                     !.g = addEdge(@, name, Undefined)]

\* The body of dependencies.forEach for package i and one declared name.
resolveDependency(st, i, dependency) ==
  LET name == st.packages[i].nodeName
      hit  == findPackage(st.packages, dependency)
  IN IF st.error # "none" THEN st
     ELSE IF hit.kind = "package"
     THEN LET st1 == promoteDependency(st, i, hit.index)
          IN [st1 EXCEPT !.g = addEdge(@, st1.packages[hit.index].uuid, name)]
     ELSE IF hit.kind = "other"
     THEN [st EXCEPT !.error = "TypeError"]   \* uuid.get is not a function
     ELSE [st EXCEPT !.log = Append(@, [msg |-> "couldn't find dependency",
                                        package |-> dependency]),
                     !.g = addEdge(@, Undefined, name)]

RECURSIVE resolveDependencies(_, _, _)
resolveDependencies(st, i, k) ==
  IF k > Len(st.packages[i].dependencies) THEN st
  ELSE resolveDependencies(
         resolveDependency(st, i, st.packages[i].dependencies[k]), i, k + 1)

\* The body of packages.forEach for package i.
addPackage(st, i) ==
  IF st.error # "none" THEN st
  ELSE resolveDependencies(
         [st EXCEPT !.g = addVertex(@, st.packages[i].nodeName)], i, 1)

RECURSIVE addPackages(_, _)
addPackages(st, i) ==
  IF i > Len(st.packages) THEN st ELSE addPackages(addPackage(st, i), i + 1)

\* sorted.forEach: the packages of the mapped vertices (by index), in order.
RECURSIVE mappedPackages(_, _, _)
mappedPackages(sorted, packages, i) ==
  IF i > Len(sorted) THEN <<>>
  ELSE LET hits == {j \in DOMAIN packages : packages[j].nodeName = sorted[i]}
       IN (IF hits = {} THEN <<>> ELSE <<CHOOSE j \in hits : TRUE>>)
          \o mappedPackages(sorted, packages, i + 1)

\* BT.Packager.orderedPackages: [error, ret (package indexes in dependency
\* order), packages (with the types as promoted), g, log].
orderedPackages(packages) ==
  LET st == addPackages([packages |-> packages, g |-> NewGraph,
                         log |-> <<>>, error |-> "none"], 1)
      sorted == topologicalSort(st.g)
      error  == IF st.error # "none" THEN st.error ELSE sorted.error
  IN [error    |-> error,
      ret      |-> IF error = "none"
                   THEN mappedPackages(sorted.order, st.packages, 1) ELSE <<>>,
      packages |-> st.packages,
      g        |-> st.g,
      log      |-> st.log]

\* The parentNode chain of a package, nearest first: the packager, which a
\* target stores under the key "packages", then that target.
Ancestors ==
  << [nodeName |-> "packages", isFramework |-> FALSE, isApp |-> FALSE],
     [nodeName |-> "app",      isFramework |-> FALSE, isApp |-> TRUE] >>

\* findRoot: walk up from the parent until a framework, an app or a node
\* without parent; the manifest names that node.
RECURSIVE findRoot(_, _)
findRoot(chain, i) ==
  IF ~chain[i].isFramework /\ ~chain[i].isApp /\ i < Len(chain)
  THEN findRoot(chain, i + 1)
  ELSE chain[i].nodeName

\* dependenciesFor: the text of the "dependencies" list, as its tokens: the
\* name of each dependency findPackage finds, followed by a comma unless it
\* is the last declared one; a name that is not found is logged and skipped.
RECURSIVE dependenciesFor(_, _, _)
dependenciesFor(packages, dependencies, idx) ==
  IF idx > Len(dependencies) THEN <<>>
  ELSE (IF findPackage(packages, dependencies[idx]).kind = "none" THEN <<>>
        ELSE <<dependencies[idx]>>
             \o (IF idx < Len(dependencies) THEN <<",">> ELSE <<>>))
       \o dependenciesFor(packages, dependencies, idx + 1)

\* A manifest entry that reports every package as loaded and ready.
manifestEntryAllLoaded(packages, package) ==
  [key          |-> package.nodeName,
   basename     |-> package.basename,
   type         |-> package.type,
   rootNode     |-> findRoot(Ancestors, 1),
   isLoaded     |-> TRUE,
   isReady      |-> TRUE,
   dependencies |-> dependenciesFor(packages, package.dependencies, 1)]

manifestEntry(packages, package) ==
  [key          |-> package.nodeName,
   basename     |-> package.basename,
   type         |-> package.type,
   rootNode     |-> findRoot(Ancestors, 1),
   isLoaded     |-> package.type = "core",
   isReady      |-> package.type = "core",
   dependencies |-> dependenciesFor(packages, package.dependencies, 1)]

\* BT.Packager.manifest: one entry per ordered package, in order.  The text
\* is modelled by its entries; two texts are equal iff the entries are.
manifest(packages, ordered) ==
  [idx \in 1..Len(ordered) |-> manifestEntry(packages, packages[ordered[idx]])]

\* orderedCorePackageFiles without the test of the package's type.
RECURSIVE orderedFilesOfEveryPackage(_, _, _)
orderedFilesOfEveryPackage(packages, ordered, i) ==
  IF i > Len(ordered) THEN [error |-> "none", ret |-> <<>>]
  ELSE LET package == packages[ordered[i]]
           rest    == orderedFilesOfEveryPackage(packages, ordered, i + 1)
           own     == orderFiles(package, package.files)
       IN IF own.error # "none" THEN [error |-> own.error, ret |-> <<>>]
          ELSE IF rest.error # "none" THEN rest
          ELSE [error |-> "none", ret |-> own.ret \o rest.ret]

\* BT.Target.orderedCorePackageFiles for a target with this packager: the
\* ordered files of the core packages, in package order.
RECURSIVE orderedCorePackageFiles(_, _, _)
orderedCorePackageFiles(packages, ordered, i) ==
  IF i > Len(ordered) THEN [error |-> "none", ret |-> <<>>]
  ELSE LET package == packages[ordered[i]]
           rest    == orderedCorePackageFiles(packages, ordered, i + 1)
           own     == IF package.type # "core"
                      THEN [error |-> "none", ret |-> <<>>]
                      ELSE orderFiles(package, package.files)
       IN IF own.error # "none" THEN [error |-> own.error, ret |-> <<>>]
          ELSE IF rest.error # "none" THEN rest
          ELSE [error |-> "none", ret |-> own.ret \o rest.ret]

\* BT.Packager.init: one BT.Package per package directory, stored under a
\* fresh id; traversal names each package after the key it is stored under.
createPackages(dirs, ids) ==
  [i \in DOMAIN dirs |->
     [uuid         |-> ids[i],
      nodeName     |-> ids[i],
      basename     |-> dirs[i].basename,
      type         |-> dirs[i].type,
      dependencies |-> dirs[i].dependencies,
      files        |-> dirs[i].files]]

(***************************************************************************)
(* The ordering scope as a state machine.                                  *)
(***************************************************************************)
\* A directory listing of every file the scope may hold.
ListingOrder ==
  << [stem |-> "core",    ext |-> "js"],
     [stem |-> "a",       ext |-> "js"],
     [stem |-> "a",       ext |-> "coffee"],
     [stem |-> "b",       ext |-> "js"],
     [stem |-> "tests/t", ext |-> "js"] >>

Reverse(s) == [i \in 1..Len(s) |-> s[Len(s) + 1 - i]]

\* The files `names` as the directory enumerates them: in listing order or
\* in the opposite order.
Enumerations(names) ==
  LET present(n) == n \in names
      listed == SelectSeq(ListingOrder, present)
  IN {listed, Reverse(listed)}

\* What one file may declare: at most MaxRequires of the names, written in
\* the file in the order of RequireOrder.  The file under tests/ declares
\* nothing.
RequireOrder == <<"core", "a", "b", "zz">>

RequireLists ==
  {LET chosen(n) == n \in S IN SelectSeq(RequireOrder, chosen) :
     S \in {T \in SUBSET RequireNames : Cardinality(T) <= MaxRequires}}

RequiresOf(name) == IF name \in ScriptNames THEN RequireLists ELSE {<<>>}

\* The package whose files the scope is, when it is ordered as a package.
ThePackage == [basename |-> "p"]

\* The process runs that build the tree.
Runs == {1, 2}

NoPackagerYet ==
  [status |-> "none", packages |-> <<>>, ordered |-> <<>>, error |-> "none",
   g |-> NewGraph, log |-> <<>>]

NoCall == [run |-> 0, key |-> "", kind |-> "none", index |-> 0]

NoOutput == [read |-> FALSE, error |-> "none", manifest |-> <<>>, files |-> <<>>]

NoFileOp == [op |-> "none", error |-> "none", ret |-> <<>>, log |-> <<>>]

\* No project tree, nothing called on one, nothing built.
NoNodes == <<>>

NoTreeCall == [op |-> "none"]

NoDisk == [dirs |-> {}, files |-> {}]

\* No composite surface, no layer, no view.
NoSurface == [op |-> "none"]

NoLayer == [op |-> "none"]

NoView == [op |-> "none"]

InitFiles ==
  /\ \E names \in SUBSET Range(ListingOrder) :
       \E order \in Enumerations(names) :
         \E requires \in [names -> RequireLists] :
           /\ \A n \in names : requires[n] \in RequiresOf(n)
           /\ scope = [i \in DOMAIN order |->
                        [name |-> order[i], requires |-> requires[order[i]]]]
  /\ fileOp = NoFileOp
  /\ fsPackages = <<>>
  /\ packager = [r \in Runs |-> NoPackagerYet]
  /\ found = NoCall
  /\ surface = NoSurface
  /\ layer = NoLayer
  /\ view = NoView
  /\ outputs = [r \in Runs |-> NoOutput]
  /\ tree = NoNodes
  /\ call = NoTreeCall
  /\ disk = NoDisk

\* package.get('orderedJavaScriptFiles'): orderFiles on the package's files,
\* computed on first access and cached.
PackageOrderFiles ==
  /\ fileOp.op = "none"
  /\ LET r == orderFiles(ThePackage, scope)
     IN fileOp' = [op |-> "Package.orderFiles", error |-> r.error,
                   ret |-> r.ret, log |-> r.log]
  /\ UNCHANGED <<surface, layer, view, scope, fsPackages, packager, found, outputs, tree, call, disk>>

\* target.get('orderedJavaScriptFiles'), computed on first access and cached.
TargetOrderedJavaScriptFiles ==
  /\ fileOp.op = "none"
  /\ LET r == orderedJavaScriptFiles(scope, NoPackager)
     IN fileOp' = [op |-> "Target.orderedJavaScriptFiles", error |-> r.error,
                   ret |-> r.ret, log |-> r.log]
  /\ UNCHANGED <<surface, layer, view, scope, fsPackages, packager, found, outputs, tree, call, disk>>

NextFiles == PackageOrderFiles \/ TargetOrderedJavaScriptFiles

SpecFiles == InitFiles /\ [][NextFiles]_vars

(***************************************************************************)
(* The packager as a state machine.                                        *)
(***************************************************************************)
\* The package directories a packages directory may hold.  A declared
\* dependency names one of them; it is unresolved when that directory does
\* not exist.
PackageNames == {"foo", "bar", "baz"}

\* The names a package.json lists, in the order it lists them.
DependencyOrder == <<"foo", "bar", "baz">>

DependencyLists ==
  {LET chosen(n) == n \in S IN SelectSeq(DependencyOrder, chosen) :
     S \in {T \in SUBSET PackageNames : Cardinality(T) <= MaxDependencies}}

\* The orders in which a directory's entries may be enumerated: all.
Orderings(S) ==
  {s \in [1..Cardinality(S) -> S] : \A i, j \in DOMAIN s : s[i] = s[j] => i = j}

PackageDirs(listed, type, dependencies) ==
  [i \in DOMAIN listed |->
     [basename     |-> listed[i],
      type         |-> type[listed[i]],
      dependencies |-> dependencies[listed[i]],
      files        |-> <<>>]]

InitPackager ==
  /\ \E names \in SUBSET PackageNames :
       \E listed \in Orderings(names) :
         \E type \in [names -> PackageTypes] :
           \E dependencies \in [names -> DependencyLists] :
             fsPackages = PackageDirs(listed, type, dependencies)
  /\ scope = <<>>
  /\ fileOp = NoFileOp
  /\ packager = [r \in Runs |-> NoPackagerYet]
  /\ found = NoCall
  /\ surface = NoSurface
  /\ layer = NoLayer
  /\ view = NoView
  /\ outputs = [r \in Runs |-> NoOutput]
  /\ tree = NoNodes
  /\ call = NoTreeCall
  /\ disk = NoDisk

\* BT.Packager.uuid: the sha1 of a random number.  A run draws one id per
\* package; the draws of a run are distinct.
Ids == {"u1", "u2", "u3"}

Draws(n) ==
  {ids \in [1..n -> Ids] : \A i, j \in 1..n : ids[i] = ids[j] => i = j}

FirstDraw(n) == [i \in 1..n |-> <<"u1", "u2", "u3">>[i]]

\* BT.Packager.init in run r, drawing `ids`: the packages are created, then
\* orderedPackages is evaluated (and cached); an exception leaves no packager.
Construct(r, ids) ==
  /\ packager[r].status = "none"
  /\ LET o == orderedPackages(createPackages(fsPackages, ids))
     IN packager' = [packager EXCEPT ![r] =
          [status   |-> IF o.error = "none" THEN "constructed" ELSE "failed",
           packages |-> o.packages,
           ordered  |-> o.ret,
           error    |-> o.error,
           g        |-> o.g,
           log      |-> o.log]]
  /\ UNCHANGED <<surface, layer, view, scope, fileOp, fsPackages, found, outputs, tree, call, disk>>

\* packager.findPackage(key)
FindPackage(r, key) ==
  /\ packager[r].status = "constructed"
  /\ LET hit == findPackage(packager[r].packages, key)
     IN found' = [run |-> r, key |-> key, kind |-> hit.kind, index |-> hit.index]
  /\ UNCHANGED <<surface, layer, view, scope, fileOp, fsPackages, packager, outputs, tree, call, disk>>

\* app.get('indexHTML') in run r: the package manifest and the ordered
\* files of the target that owns the packager.
IndexHTML(r) ==
  /\ packager[r].status = "constructed"
  /\ ~outputs[r].read
  /\ LET files == orderedJavaScriptFiles(scope,
                    orderedCorePackageFiles(packager[r].packages,
                                            packager[r].ordered, 1))
     IN outputs' = [outputs EXCEPT ![r] =
          [read     |-> TRUE,
           error    |-> files.error,
           manifest |-> manifest(packager[r].packages, packager[r].ordered),
           files    |-> files.ret]]
  /\ UNCHANGED <<surface, layer, view, scope, fileOp, fsPackages, packager, found, tree, call, disk>>

FindKeys == Ids \cup PackageNames \cup PackagerProperties

\* One run; ids are opaque, so the run that draws u1, u2, ... in this order
\* stands for every draw.
NextPackager ==
  \/ Construct(1, FirstDraw(Len(fsPackages)))
  \/ \E key \in FindKeys : FindPackage(1, key)
  \/ IndexHTML(1)

SpecPackager == InitPackager /\ [][NextPackager]_vars

(***************************************************************************)
(* Two process runs over one unchanged tree: a target with up to two       *)
(* script files and a packages directory with at most one package.         *)
(***************************************************************************)
BuildScriptNames == {[stem |-> "a", ext |-> "js"], [stem |-> "b", ext |-> "js"]}
BuildPackageNames == {"foo"}

InitBuilds ==
  /\ \E names \in SUBSET BuildScriptNames :
       \E requires \in [names -> RequireLists] :
         LET present(n) == n \in names
             order == SelectSeq(ListingOrder, present)
         IN scope = [i \in DOMAIN order |->
                       [name |-> order[i], requires |-> requires[order[i]]]]
  /\ \E names \in SUBSET BuildPackageNames :
       \E listed \in Orderings(names) :
         \E type \in [names -> PackageTypes] :
           \E dependencies \in [names -> DependencyLists] :
             fsPackages = PackageDirs(listed, type, dependencies)
  /\ fileOp = NoFileOp
  /\ packager = [r \in Runs |-> NoPackagerYet]
  /\ found = NoCall
  /\ surface = NoSurface
  /\ layer = NoLayer
  /\ view = NoView
  /\ outputs = [r \in Runs |-> NoOutput]
  /\ tree = NoNodes
  /\ call = NoTreeCall
  /\ disk = NoDisk

\* Run 1 draws u1, u2, ... (any other draw is a renaming of the ids of both
\* runs); run 2 draws freely.
NextBuilds ==
  \/ Construct(1, FirstDraw(Len(fsPackages)))
  \/ \E ids \in Draws(Len(fsPackages)) : Construct(2, ids)
  \/ \E r \in Runs : IndexHTML(r)

SpecBuilds == InitBuilds /\ [][NextBuilds]_vars

(***************************************************************************)
(* One target with files of its own and a packages directory whose         *)
(* packages have files.  A file carries its owner: "target" or the         *)
(* basename of its package.                                                *)
(***************************************************************************)
BundlePackageNames == {"foo", "bar"}

OwnedFile(stem, requires, owner) ==
  [name |-> [stem |-> stem, ext |-> "js"], requires |-> requires,
   owner |-> owner]

\* The files a directory may hold, as enumerated: none, a.js, or a.js
\* which requires b followed by b.js.
FileLists(owner) ==
  { <<>>,
    <<OwnedFile("a", <<>>, owner)>>,
    <<OwnedFile("a", <<"b">>, owner), OwnedFile("b", <<>>, owner)>> }

InitBundle ==
  /\ scope \in FileLists("target")
  /\ \E names \in SUBSET BundlePackageNames :
       \E listed \in Orderings(names) :
         \E type \in [names -> PackageTypes] :
           \E dependencies \in [names -> DependencyLists] :
             \E contents \in [names -> UNION {FileLists(n) : n \in names}] :
               /\ \A n \in names : contents[n] \in FileLists(n)
               /\ fsPackages =
                    [i \in DOMAIN listed |->
                       [PackageDirs(listed, type, dependencies)[i]
                          EXCEPT !.files = contents[listed[i]]]]
  /\ fileOp = NoFileOp
  /\ packager = [r \in Runs |-> NoPackagerYet]
  /\ found = NoCall
  /\ surface = NoSurface
  /\ layer = NoLayer
  /\ view = NoView
  /\ outputs = [r \in Runs |-> NoOutput]
  /\ tree = NoNodes
  /\ call = NoTreeCall
  /\ disk = NoDisk

NextBundle ==
  \/ Construct(1, FirstDraw(Len(fsPackages)))
  \/ IndexHTML(1)

SpecBundle == InitBundle /\ [][NextBundle]_vars

(***************************************************************************)
(* Build nodes and visitors.  A node is [kind, children, nodeName,         *)
(* parentNode, project]; children are the own properties that hold build   *)
(* nodes, [key, node], in the order for-in enumerates them.  The           *)
(* properties `project` and `parentNode`, which traverse skips, are the    *)
(* fields of those names and never among the children.                     *)
(***************************************************************************)
Kinds ==
  {"Project", "App", "Framework", "Localization", "Target", "Directory",
   "File", "Packager", "Package", "Proxy"}

\* nodeName: null, parentNode: null, and a node without project.
Null == "null"
NoNode == 0

\* !value for a node name: null and the empty string are falsy.
Falsy(value) == value \in {Null, ""}

\* What the method a visitor has for a kind of node does:
\*   "K"          BT.K, nothing
\*   "traverse"   the method BT.Visitor has: visit the children
\*   "self"       traverse if the node is the one the visitor was made for
\*   "push"       ret.push(node), then traverse
\*   "pushOnly"   ret.push(node)
\*   "find"       if visited under the searched key: ret = node, throw
\*                "found-it"; else traverse
\*   "setProject" node.set('project', project), then traverse
handler(visitor, kind) ==
  CASE visitor.name = "Target.files" ->
         (CASE kind = "Framework" -> "self"
            [] kind \in {"App", "Target", "Packager", "Package"} -> "K"
            [] kind = "File" -> "push"
            [] OTHER -> "traverse")
    [] visitor.name = "App.files" ->
         (CASE kind = "App" -> "self"
            [] kind \in {"Framework", "Target", "Packager", "Package"} -> "K"
            [] kind = "File" -> "push"
            [] OTHER -> "traverse")
    [] visitor.name = "findApp" ->
         (IF kind = "App" THEN "find" ELSE "traverse")
    [] visitor.name = "findFramework" ->
         (IF kind = "Framework" THEN "find" ELSE "traverse")
    [] visitor.name = "findProxy" ->
         (IF kind = "Proxy" THEN "find" ELSE "traverse")
    [] visitor.name = "setProject" ->
         (IF kind \in {"Package", "Target", "Directory", "File", "App",
                       "Localization", "Framework"}
          THEN "setProject" ELSE "traverse")
    [] visitor.name = "apps" ->
         (IF kind = "App" THEN "push" ELSE "traverse")
    [] OTHER -> "traverse"

Visitor(name, that, str) == [name |-> name, that |-> that, str |-> str]

\* A traversal in progress: the nodes, what the visitor collected, the node
\* it found, the exception in flight ("none" while there is none), and the
\* nodes whose visitor method has been called so far, in order.
Traversal(t) ==
  [tree |-> t, ret |-> <<>>, hit |-> NoNode, signal |-> "none", seen |-> <<>>]

\* traverse with lines 44-45 stripped of their tests: the child is named
\* and parented anew on every visit.
adoptAlways(st, n, c) ==
  [st EXCEPT !.tree[c.node].nodeName = c.key, !.tree[c.node].parentNode = n]

\* traverse, lines 44-45: the child learns its name and parent unless it
\* already has them.
adopt(st, n, c) ==
  LET named == IF Falsy(st.tree[c.node].nodeName)
               THEN [st EXCEPT !.tree[c.node].nodeName = c.key] ELSE st
  IN IF named.tree[c.node].parentNode = NoNode
     THEN [named EXCEPT !.tree[c.node].parentNode = n] ELSE named

RECURSIVE accept(_, _, _, _, _)
RECURSIVE traverseFrom(_, _, _, _, _)

\* node.accept(visitor, key, depth): the visitor's method for the node's
\* kind.  A descent deeper than there are nodes is on a cycle of children
\* and never returns: the call stack overflows.
accept(visitor, st, n, key, depth) ==
  IF st.signal # "none" THEN st
  ELSE IF depth > Len(st.tree) THEN [st EXCEPT !.signal = "RangeError"]
  ELSE LET h == handler(visitor, st.tree[n].kind)
           at == [st EXCEPT !.seen = Append(@, n)]
       IN CASE h = "K" -> at
            [] h = "traverse" -> traverseFrom(visitor, at, n, 1, depth + 1)
            [] h = "self" ->
                 IF n = visitor.that
                 THEN traverseFrom(visitor, at, n, 1, depth + 1) ELSE at
            [] h = "push" ->
                 traverseFrom(visitor, [at EXCEPT !.ret = Append(@, n)],
                              n, 1, depth + 1)
            [] h = "pushOnly" -> [at EXCEPT !.ret = Append(@, n)]
            [] h = "find" ->
                 IF key = visitor.str
                 THEN [at EXCEPT !.hit = n, !.signal = "found-it"]
                 ELSE traverseFrom(visitor, at, n, 1, depth + 1)
            [] h = "setProject" ->
                 traverseFrom(visitor, [at EXCEPT !.tree[n].project = visitor.that],
                              n, 1, depth + 1)

\* The for-in loop of traverse over the children of n, from the i-th on.
traverseFrom(visitor, st, n, i, depth) ==
  IF st.signal # "none" \/ i > Len(st.tree[n].children) THEN st
  ELSE LET c == st.tree[n].children[i]
       IN traverseFrom(visitor,
                       accept(visitor, adopt(st, n, c), c.node, c.key, depth),
                       n, i + 1, depth)

\* The key a node is visited under when accept is called on it directly.
NoKey == "undefined"

(***************************************************************************)
(* Operations on a tree of build nodes.  Each yields the traversal it      *)
(* made: the nodes as it left them, what it collected or found, and the    *)
(* exception that ended it, if any.                                        *)
(***************************************************************************)
TargetKinds == {"Target", "App", "Framework", "Localization"}

\* BT.Target.files, and BT.App.files for an app.
targetFiles(t, n) ==
  accept(Visitor(IF t[n].kind = "App" THEN "App.files" ELSE "Target.files",
                 n, ""),
         Traversal(t), n, NoKey, 0)

\* A find method whose catch block rethrows whatever it caught.
rethrown(st) == st

\* catch (e) { if (e !== expected) throw e; }: "found-it" ends here, any
\* other exception goes on to the caller.
caught(st) ==
  IF st.signal = "found-it" THEN [st EXCEPT !.signal = "none"] ELSE st

\* BT.Project.findApp / findFramework / findProxy: the traversal from root
\* inside try/catch.  The caller gets `hit` (null when nothing was found),
\* or the exception left in `signal`.
find(t, method, str, root) ==
  With(t, LAMBDA nodes :
    caught(accept(Visitor(method, NoNode, str), Traversal(nodes), root,
                  NoKey, 0)))

\* BT.Project.init: the traversal that sets `project`.
projectInit(t, project) ==
  accept(Visitor("setProject", project, ""), Traversal(t), project, NoKey, 0)

\* The loop of BT.Package.rootNode and of findRoot: up the parentNode chain
\* from `root` until a framework, an app, or a node without a parent.
RECURSIVE climb(_, _)
climb(t, root) ==
  IF t[root].kind \notin {"Framework", "App"} /\ t[root].parentNode # NoNode
  THEN climb(t, t[root].parentNode)
  ELSE root

\* BT.Package.rootNode of package n: the nodeName of the node the loop
\* stops at.  Reading a property of a null parentNode is a TypeError.
rootNode(t, n) ==
  IF t[n].parentNode = NoNode
  THEN [signal |-> "TypeError", value |-> Null]
  ELSE [signal |-> "none", value |-> t[climb(t, t[n].parentNode)].nodeName]

\* findRoot(package) of BT.Packager.manifest: the text written after
\* "rootNode": in the manifest, the nodeName between quotes.  The text of
\* a null nodeName is null.
findRootText(t, n) ==
  IF t[n].parentNode = NoNode
  THEN [signal |-> "TypeError", quoted |-> FALSE, text |-> Null]
  ELSE [signal |-> "none", quoted |-> TRUE,
        text |-> t[climb(t, t[n].parentNode)].nodeName]

(***************************************************************************)
(* A project tree as a state machine: the project (node 1) and three more  *)
(* nodes, as the configuration and the directory scans create them.        *)
(***************************************************************************)
TheProject == 1
NodeIds == {2, 3, 4}

\* Names of configured nodes, files and directories.
Keys == {"a", "b"}

\* The ids packages are stored under, by node.
PackageKey(n) == <<"u1", "u2", "u3">>[n - 1]

\* What may hold what: a project holds what its configuration lists; a
\* packager holds packages (BT.Packager.init); a package holds files and
\* directories (BT.Package.init); a target holds the files, directories and
\* packager its scan creates (BT.Target.init) and the targets its
\* configuration embeds; files and proxies hold nothing.
MayHold(parentKind, kind) ==
  CASE parentKind = "Project" ->
         kind \in TargetKinds \cup {"Directory", "Proxy"}
    [] parentKind = "Packager" -> kind = "Package"
    [] parentKind = "Package" -> kind \in {"File", "Directory"}
    [] parentKind = "Directory" ->
         kind \in TargetKinds \cup {"Directory", "File", "Proxy"}
    [] parentKind \in TargetKinds ->
         kind \in TargetKinds \cup {"Directory", "File", "Packager", "Proxy"}
    [] OTHER -> FALSE

KeyOf(n, kind, key) ==
  CASE kind = "Packager" -> "packages"
    [] kind = "Package" -> PackageKey(n)
    [] OTHER -> key

\* A second property that holds a node which another property holds
\* already: none, the project holding node 4 also as "z", or node 4 holding
\* node 2 as "z".
ExtraLinks ==
  { [from |-> NoNode, key |-> "z", node |-> NoNode],
    [from |-> TheProject, key |-> "z", node |-> 4],
    [from |-> 4, key |-> "z", node |-> 2] }

NewNode(kind, children) ==
  [kind |-> kind, children |-> children, nodeName |-> Null,
   parentNode |-> NoNode, project |-> NoNode]

\* The nodes, given each node's parent, kind and key and the extra link.
Nodes(parent, kind, key, extra) ==
  LET kindOf(n) == IF n = TheProject THEN "Project" ELSE kind[n]
      isChild(p, n) == n \in NodeIds /\ parent[n] = p
      own(p) == [i \in 1..3 |->
                   [key |-> KeyOf(i + 1, kind[i + 1], key[i + 1]), node |-> i + 1]]
      held(p) == LET mine(c) == parent[c.node] = p IN SelectSeq(own(p), mine)
      more(p) == IF extra.from = p
                 THEN <<[key |-> extra.key, node |-> extra.node]>> ELSE <<>>
      \* BT.Packager.init ends by evaluating orderedPackages, whose
      \* traversal of the packager names and parents its packages.
      made(n) == IF kindOf(n) = "Package"
                 THEN [NewNode(kindOf(n), held(n) \o more(n))
                         EXCEPT !.nodeName = PackageKey(n),
                                !.parentNode = parent[n]]
                 ELSE NewNode(kindOf(n), held(n) \o more(n))
  IN [n \in 1..4 |-> made(n)]

WellFormed(parent, kind, key, extra) ==
  LET kindOf(n) == IF n = TheProject THEN "Project" ELSE kind[n]
  IN /\ \A n \in NodeIds : parent[n] < n /\ MayHold(kindOf(parent[n]), kind[n])
     /\ \A n, m \in NodeIds :
          (n # m /\ parent[n] = parent[m]) =>
            KeyOf(n, kind[n], key[n]) # KeyOf(m, kind[m], key[m])
     /\ \A n \in NodeIds : kind[n] \in {"Packager", "Package"} => key[n] = "a"
     /\ key[2] = "a"
     /\ extra.from # NoNode =>
          /\ MayHold(kindOf(extra.from), kind[extra.node])
          /\ kind[extra.node] \notin {"Packager", "Package"}
          /\ parent[extra.node] # extra.from

InitTree ==
  /\ \E parent \in [NodeIds -> 1..3] :
       \E kind \in [NodeIds -> Kinds \ {"Project"}] :
         \E key \in [NodeIds -> Keys] :
           \E extra \in ExtraLinks :
             /\ WellFormed(parent, kind, key, extra)
             /\ tree = Nodes(parent, kind, key, extra)
  /\ call = NoTreeCall
  /\ disk = NoDisk
  /\ scope = <<>>
  /\ fileOp = NoFileOp
  /\ fsPackages = <<>>
  /\ packager = [r \in Runs |-> NoPackagerYet]
  /\ found = NoCall
  /\ surface = NoSurface
  /\ layer = NoLayer
  /\ view = NoView
  /\ outputs = [r \in Runs |-> NoOutput]

\* What an operation on the tree left in `call`.
TreeCall(op, n, str, st) ==
  [op |-> op, node |-> n, str |-> str,
   ret |-> st.ret, hit |-> st.hit, signal |-> st.signal, seen |-> st.seen]

\* new BT.Project: BT.Project.init runs once, when the project is created
\* around the nodes of its configuration.
ProjectInit ==
  /\ call.op = "none"
  /\ LET st == projectInit(tree, TheProject)
     IN /\ tree' = st.tree
        /\ call' = TreeCall("Project.init", TheProject, "", st)
  /\ UNCHANGED <<surface, layer, view, scope, fileOp, fsPackages, packager, found, outputs, disk>>

\* target.get('files')
TargetFiles(n) ==
  /\ call.op # "none"
  /\ tree[n].kind \in TargetKinds
  /\ LET st == targetFiles(tree, n)
     IN /\ tree' = st.tree
        /\ call' = TreeCall("files", n, "", st)
  /\ UNCHANGED <<surface, layer, view, scope, fileOp, fsPackages, packager, found, outputs, disk>>

FindMethods == {"findApp", "findFramework", "findProxy"}

\* project.findApp(str), project.findFramework(str, root), project.findProxy(str);
\* root is the project unless findFramework is given a framework.
Find(method, str, root) ==
  /\ call.op # "none"
  /\ root = TheProject \/ (method = "findFramework" /\ tree[root].kind = "Framework")
  /\ LET st == find(tree, method, str, root)
     IN /\ tree' = st.tree
        /\ call' = TreeCall(method, root, str, st)
  /\ UNCHANGED <<surface, layer, view, scope, fileOp, fsPackages, packager, found, outputs, disk>>

\* package.get('rootNode')
RootNode(n) ==
  /\ call.op # "none"
  /\ tree[n].kind = "Package"
  /\ LET root == rootNode(tree, n)
     IN call' = [op |-> "rootNode", node |-> n, signal |-> root.signal,
                 quoted |-> FALSE, text |-> root.value]
  /\ UNCHANGED <<surface, layer, view, scope, fileOp, fsPackages, packager, found, outputs, tree, disk>>

\* The rootNode field the manifest of the package's packager gives it.
ManifestRootNode(n) ==
  /\ call.op # "none"
  /\ tree[n].kind = "Package"
  /\ LET root == findRootText(tree, n)
     IN call' = [op |-> "manifest.rootNode", node |-> n, signal |-> root.signal,
                 quoted |-> root.quoted, text |-> root.text]
  /\ UNCHANGED <<surface, layer, view, scope, fileOp, fsPackages, packager, found, outputs, tree, disk>>

NextTree ==
  \/ ProjectInit
  \/ \E n \in NodeIds : TargetFiles(n)
  \/ \E n \in NodeIds : RootNode(n)
  \/ \E n \in NodeIds : ManifestRootNode(n)
  \/ \E method \in FindMethods : \E str \in Keys \cup {"z"} :
       \E root \in {TheProject} \cup NodeIds : Find(method, str, root)

SpecTree == InitTree /\ [][NextTree]_vars

(***************************************************************************)
(* BT.Target.orderedFrameworks.  The targets of these trees carry          *)
(* `frameworks`, the names their configuration lists.                      *)
(***************************************************************************)
RECURSIVE processFramework(_, _, _, _)
RECURSIVE processFrameworks(_, _, _, _, _)

\* processFramework with every lookup, nested ones too, made from the
\* project.
processFrameworkFromProject(st, project, name, parent) ==
  IF st.signal # "none" THEN st
  ELSE IF st.depth > Len(st.tree) THEN [st EXCEPT !.signal = "RangeError"]
  ELSE With(find(st.tree, "findFramework", name, project),
            LAMBDA look :
         IF look.signal # "none"
         THEN [st EXCEPT !.tree = look.tree, !.signal = look.signal]
         ELSE IF look.hit = NoNode THEN [st EXCEPT !.tree = look.tree]
         ELSE With(processFrameworks([st EXCEPT !.tree = look.tree,
                                                !.depth = @ + 1], project,
                                     look.tree[look.hit].frameworks, 1,
                                     look.hit),
                   LAMBDA done :
                IF done.signal # "none" THEN done
                ELSE [done EXCEPT !.ary = Append(@, look.hit),
                                  !.depth = @ - 1]))

\* processFramework(name, parent) for the project `project`; st is [tree,
\* ary, signal, depth], depth the calls of processFramework on the stack.
\* findFramework searches from the parent framework when there is one,
\* else from the project.  Calls nested deeper than there are nodes never
\* return: the call stack overflows.
processFramework(st, project, name, parent) ==
  IF st.signal # "none" THEN st
  ELSE IF st.depth > Len(st.tree) THEN [st EXCEPT !.signal = "RangeError"]
  ELSE With(find(st.tree, "findFramework", name,
                 IF parent = NoNode THEN project ELSE parent),
            LAMBDA look :
         IF look.signal # "none"
         THEN [st EXCEPT !.tree = look.tree, !.signal = look.signal]
         ELSE IF look.hit = NoNode THEN [st EXCEPT !.tree = look.tree]
         ELSE With(processFrameworks([st EXCEPT !.tree = look.tree,
                                                !.depth = @ + 1], project,
                                     look.tree[look.hit].frameworks, 1,
                                     look.hit),
                   LAMBDA done :
                IF done.signal # "none" THEN done
                ELSE [done EXCEPT !.ary = Append(@, look.hit),
                                  !.depth = @ - 1]))

\* names.forEach(function(name) { processFramework(name, parent) })
processFrameworks(st, project, names, i, parent) ==
  IF st.signal # "none" \/ i > Len(names) THEN st
  ELSE With(processFramework(st, project, names[i], parent),
            LAMBDA next :
              processFrameworks(next, project, names, i + 1, parent))

orderedFrameworks(t, n) ==
  IF t[n].project = NoNode
  THEN [tree |-> t, ary |-> <<>>, signal |-> "none", depth |-> 0]
  ELSE processFrameworks([tree |-> t, ary |-> <<>>, signal |-> "none",
                          depth |-> 0],
                         t[n].project, t[n].frameworks, 1, NoNode)

\* The framework lists a configuration may give a target.
FrameworkLists == {<<>>, <<"a">>, <<"b">>, <<"a", "b">>}

\* A project of apps and frameworks, embedded in one another or side by
\* side, each with its list of framework names.
InitFrameworks ==
  /\ \E parent \in [NodeIds -> 1..3] :
       \E kind \in [NodeIds -> {"App", "Framework"}] :
         \E key \in [NodeIds -> Keys] :
           \E lists \in [NodeIds -> FrameworkLists] :
             LET none == [from |-> NoNode, key |-> "z", node |-> NoNode]
                 made == Nodes(parent, kind, key, none)
             IN /\ WellFormed(parent, kind, key, none)
                /\ tree = [n \in DOMAIN made |->
                             [kind |-> made[n].kind,
                              children |-> made[n].children,
                              nodeName |-> made[n].nodeName,
                              parentNode |-> made[n].parentNode,
                              project |-> made[n].project,
                              frameworks |->
                                IF n \in NodeIds THEN lists[n] ELSE <<>>]]
  /\ call = NoTreeCall
  /\ disk = NoDisk
  /\ scope = <<>>
  /\ fileOp = NoFileOp
  /\ fsPackages = <<>>
  /\ packager = [r \in Runs |-> NoPackagerYet]
  /\ found = NoCall
  /\ surface = NoSurface
  /\ layer = NoLayer
  /\ view = NoView
  /\ outputs = [r \in Runs |-> NoOutput]

\* target.get('orderedFrameworks')
OrderedFrameworks(n) ==
  /\ call.op # "none"
  /\ tree[n].kind \in TargetKinds
  /\ LET st == orderedFrameworks(tree, n)
     IN /\ tree' = st.tree
        /\ call' = [op |-> "orderedFrameworks", node |-> n, str |-> "",
                    ret |-> st.ary, hit |-> NoNode, signal |-> st.signal]
  /\ UNCHANGED <<surface, layer, view, scope, fileOp, fsPackages, packager, found, outputs, disk>>

NextFrameworks ==
  \/ ProjectInit
  \/ \E n \in NodeIds : OrderedFrameworks(n)

SpecFrameworks == InitFrameworks /\ [][NextFrameworks]_vars

(***************************************************************************)
(* BT.Project.build.  The targets of these trees carry what the scan of    *)
(* their directory found: `scope`, their own files, and `packageDirs`, the *)
(* packages of their packages directory.  A file's owner is its target,    *)
(* or the packages directory of its target.  The disk is [dirs, files,     *)
(* failing, projectPath, deleted]: the directories and files that exist,   *)
(* the directories mkdir cannot create, where the project lives, and the   *)
(* source files deleted since the scan.                                    *)
(***************************************************************************)
NodeOwner(n) == <<"n2", "n3", "n4">>[n - 1]
PackageOwner(n) == <<"p2", "p3", "p4">>[n - 1]

\* path.join(__dirname, '../build')
BuildPath == <<"blossom", "build">>

\* What a written file holds: the page of an app, the page of the project
\* with its list of apps, or the concatenated sources.
Page(of) == [kind |-> "html", of |-> of, apps |-> <<>>, sources |-> <<>>]
ProjectPage(apps) ==
  [kind |-> "html", of |-> "project", apps |-> apps, sources |-> <<>>]
Script(of, sources) ==
  [kind |-> "js", of |-> of, apps |-> <<>>, sources |-> sources]

\* path.existsSync(p) for a source file.
existsSync(d, file) == <<file.owner, file.name.stem>> \notin d.deleted

\* fs.mkdirSync behind the test path.existsSync: [ok, disk].
mkdirSync(d, dir) ==
  IF dir \in d.dirs THEN [ok |-> TRUE, disk |-> d]
  ELSE IF dir \in d.failing THEN [ok |-> FALSE, disk |-> d]
  ELSE [ok |-> TRUE, disk |-> [d EXCEPT !.dirs = @ \cup {dir}]]

\* fs.writeFileSync
writeFileSync(d, file, content) ==
  [d EXCEPT !.files = {f \in @ : f.path # file}
                        \cup {[path |-> file, content |-> content]}]

\* target.get('orderedJavaScriptFiles') for node n: its own files, then
\* the files of the core packages of its packager, if it has one.
targetJavaScriptFiles(t, n) ==
  With(IF t[n].packageDirs = <<>> THEN [error |-> "none", ret |-> <<>>]
       ELSE orderedPackages(
              createPackages(t[n].packageDirs,
                             FirstDraw(Len(t[n].packageDirs)))),
       LAMBDA o :
    IF o.error # "none" THEN [error |-> o.error, ret |-> <<>>, log |-> <<>>]
    ELSE With(IF t[n].packageDirs = <<>> THEN NoPackager
              ELSE orderedCorePackageFiles(o.packages, o.ret, 1),
              LAMBDA corePackageFiles :
           orderedJavaScriptFiles(t[n].scope, corePackageFiles)))

\* The files of the frameworks ary[i..], in order.
RECURSIVE frameworkFiles(_, _, _)
frameworkFiles(t, ary, i) ==
  IF i > Len(ary) THEN [error |-> "none", ret |-> <<>>]
  ELSE With(targetJavaScriptFiles(t, ary[i]), LAMBDA files :
         IF files.error # "none" THEN [error |-> files.error, ret |-> <<>>]
         ELSE With(frameworkFiles(t, ary, i + 1), LAMBDA rest :
                IF rest.error # "none" THEN rest
                ELSE [error |-> "none", ret |-> files.ret \o rest.ret]))

\* The list javascriptSourceFiles returns, or the exception that ended it:
\* `first` then `second`.
sourceFiles(frameworks, theirs, own, first, second) ==
  LET error == IF frameworks.signal # "none" THEN frameworks.signal
               ELSE IF theirs.error # "none" THEN theirs.error
               ELSE own.error
  IN [tree |-> frameworks.tree, error |-> error,
      ret |-> IF error = "none" THEN first \o second ELSE <<>>]

\* javascriptSourceFiles with the app's own files ahead of its frameworks'.
javascriptSourceFilesOwnFirst(t, app) ==
  With(orderedFrameworks(t, app), LAMBDA frameworks :
    With(frameworkFiles(frameworks.tree, frameworks.ary, 1), LAMBDA theirs :
      With(targetJavaScriptFiles(frameworks.tree, app), LAMBDA own :
        sourceFiles(frameworks, theirs, own, own.ret, theirs.ret))))

\* BT.App.javascriptSourceFiles: the files of every ordered framework,
\* then the app's orderedJavaScriptFiles.
javascriptSourceFiles(t, app) ==
  With(orderedFrameworks(t, app), LAMBDA frameworks :
    With(frameworkFiles(frameworks.tree, frameworks.ary, 1), LAMBDA theirs :
      With(targetJavaScriptFiles(frameworks.tree, app), LAMBDA own :
        sourceFiles(frameworks, theirs, own, theirs.ret, own.ret))))

\* What buildApp did for the app visited as `name`.
Built(name, app, outcome, sources) ==
  [name |-> name, app |-> app, outcome |-> outcome, sources |-> sources]

\* The rest of buildApp once the app was found and its source files were
\* listed: the two directories, then the two files.
writeApp(st, name, app, js) ==
  LET appPath == Append(BuildPath, js.tree[app].nodeName)
      first == mkdirSync(st.disk, BuildPath)
      second == mkdirSync(first.disk, appPath)
      existing == LET here(file) == existsSync(st.disk, file)
                  IN SelectSeq(js.ret, here)
      page == writeFileSync(second.disk, Append(appPath, "index.html"),
                            Page(js.tree[app].nodeName))
      script == writeFileSync(page, Append(appPath, "application.js"),
                              Script(js.tree[app].nodeName, existing))
  IN IF js.error # "none"
     THEN [st EXCEPT !.tree = js.tree, !.signal = js.error]
     ELSE IF ~first.ok
     THEN [st EXCEPT !.tree = js.tree,
                     !.log = Append(@, Built(name, app, "mkdir failed", js.ret))]
     ELSE IF ~second.ok
     THEN [st EXCEPT !.tree = js.tree, !.disk = first.disk,
                     !.log = Append(@, Built(name, app, "mkdir failed", js.ret))]
     ELSE [st EXCEPT !.tree = js.tree, !.disk = script,
                     !.log = Append(@, Built(name, app, "written", js.ret))]

\* BT.Project.buildApp(name); st is [tree, disk, log, signal].  A failed
\* mkdir is logged and buildApp returns; an exception is left in signal.
buildApp(st, name) ==
  With(find(st.tree, "findApp", name, TheProject), LAMBDA look :
    IF look.signal # "none"
    THEN [st EXCEPT !.tree = look.tree, !.signal = look.signal]
    ELSE IF look.hit = NoNode
    THEN [st EXCEPT !.tree = look.tree,
                    !.log = Append(@, Built(name, NoNode, "not found", <<>>))]
    ELSE With(javascriptSourceFiles(look.tree, look.hit), LAMBDA js :
           writeApp(st, name, look.hit, js)))

\* The traversal of build's visitor: buildApp(name) at every app, then the
\* children, as traverse visits them.
RECURSIVE buildAccept(_, _, _)
RECURSIVE buildTraverse(_, _, _)

buildAccept(st, n, key) ==
  IF st.signal # "none" THEN st
  ELSE IF st.tree[n].kind = "App"
  THEN With(buildApp(st, key), LAMBDA built : buildTraverse(built, n, 1))
  ELSE buildTraverse(st, n, 1)

buildTraverse(st, n, i) ==
  IF st.signal # "none" \/ i > Len(st.tree[n].children) THEN st
  ELSE LET c == st.tree[n].children[i]
       IN With(buildAccept(adopt(st, n, c), c.node, c.key),
               LAMBDA below : buildTraverse(below, n, i + 1))

\* project.get('apps'): the apps in traversal order.
apps(t, project) ==
  accept(Visitor("apps", NoNode, ""), Traversal(t), project, NoKey, 0)

\* The names BT.Project.indexHTML lists.
RECURSIVE appNames(_, _, _)
appNames(t, ret, i) ==
  IF i > Len(ret) THEN <<>>
  ELSE <<t[ret[i]].nodeName>> \o appNames(t, ret, i + 1)

\* The end of build: the project's build directory and page, once the
\* apps are visited.
afterApps(visited, project) ==
  LET buildPath == Append(visited.disk.projectPath, "build")
      made == mkdirSync(visited.disk, buildPath)
  IN IF visited.signal # "none" THEN visited
     ELSE IF ~made.ok
     THEN [visited EXCEPT
             !.log = Append(@, Built("project", project, "mkdir failed", <<>>))]
     ELSE With(apps(visited.tree, project), LAMBDA listed :
            IF listed.signal # "none"
            THEN [visited EXCEPT !.tree = listed.tree, !.disk = made.disk,
                                 !.signal = listed.signal]
            ELSE [visited EXCEPT
                    !.tree = listed.tree,
                    !.isBuilding = FALSE,
                    !.disk = writeFileSync(made.disk,
                               Append(buildPath, "index.html"),
                               ProjectPage(appNames(listed.tree, listed.ret, 1))),
                    !.log = Append(@, Built("project", project, "written",
                                            <<>>))])

\* BT.Project.build: isBuilding is set, every app is built, then the
\* project's page is written to the build directory of the project and
\* isBuilding is cleared.  The result is [tree, disk, log, signal,
\* isBuilding].
build(t, d, project) ==
  With(buildAccept([tree |-> t, disk |-> d, log |-> <<>>, signal |-> "none",
                    isBuilding |-> TRUE],
                   project, NoKey),
       LAMBDA visited : afterApps(visited, project))

\* The framework names a configuration may list and the packages
\* directories a scan may find: none, one core package holding a.js, or
\* one lazy package holding a.js.
BuildFrameworkLists == {<<>>, <<"b">>, <<"c">>, <<"b", "c">>}

BuildPackageDirs(n) ==
  { <<>> } \cup
  { << [basename |-> "foo", type |-> type, dependencies |-> <<>>,
        files |-> <<OwnedFile("a", <<>>, PackageOwner(n))>>] >> :
      type \in {"core", "lazy"} }

\* The directories mkdir may be unable to create: none, a build directory,
\* or the directory of one app.
FailingDirs ==
  { {}, {BuildPath}, {<<"project", "build">>},
    {Append(BuildPath, "a")}, {Append(BuildPath, "b")} }

\* A project that holds the app "a"; "b" and "c" are apps or frameworks,
\* side by side or embedded.
InitBuild ==
  /\ \E parent \in [NodeIds -> 1..3] :
       \E kind \in [NodeIds -> {"App", "Framework"}] :
         \E lists \in [NodeIds -> BuildFrameworkLists] :
           \E files \in FileLists(NodeOwner(2)) :
             \E dirs \in BuildPackageDirs(2) :
               LET none == [from |-> NoNode, key |-> "z", node |-> NoNode]
                   key == [n \in NodeIds |-> <<"a", "b", "c">>[n - 1]]
                   made == Nodes(parent, kind, key, none)
               IN /\ parent[2] = 1 /\ kind[2] = "App"
                  /\ parent[3] \in {1, 2} /\ parent[4] \in {1, 3}
                  /\ lists[3] \in {<<>>, <<"c">>} /\ lists[4] = <<>>
                  /\ tree = [n \in DOMAIN made |->
                       [kind |-> made[n].kind,
                        children |-> made[n].children,
                        nodeName |-> made[n].nodeName,
                        parentNode |-> made[n].parentNode,
                        project |-> made[n].project,
                        frameworks |-> IF n \in NodeIds THEN lists[n] ELSE <<>>,
                        scope |->
                          IF n = 2 THEN files
                          ELSE IF n \in NodeIds
                          THEN <<OwnedFile("a", <<>>, NodeOwner(n))>>
                          ELSE <<>>,
                        packageDirs |-> IF n = 2 THEN dirs ELSE <<>>]]
  /\ \E failing \in FailingDirs :
       \E projectPath \in {<<"blossom">>, <<"project">>} :
         \E deleted \in {{}, {<<NodeOwner(3), "a">>}} :
           disk = [dirs |-> {}, files |-> {}, failing |-> failing,
                   projectPath |-> projectPath, deleted |-> deleted]
  /\ call = NoTreeCall
  /\ scope = <<>>
  /\ fileOp = NoFileOp
  /\ fsPackages = <<>>
  /\ packager = [r \in Runs |-> NoPackagerYet]
  /\ found = NoCall
  /\ surface = NoSurface
  /\ layer = NoLayer
  /\ view = NoView
  /\ outputs = [r \in Runs |-> NoOutput]

\* project.build()
Build ==
  /\ call.op = "Project.init"
  /\ LET st == build(tree, disk, TheProject)
     IN /\ tree' = st.tree
        /\ disk' = st.disk
        /\ call' = [op |-> "build", node |-> TheProject, log |-> st.log,
                    signal |-> st.signal, isBuilding |-> st.isBuilding]
  /\ UNCHANGED <<surface, layer, view, scope, fileOp, fsPackages, packager, found, outputs>>

NextBuild ==
  \/ ProjectInit
  \/ Build

SpecBuild == InitBuild /\ [][NextBuild]_vars

(***************************************************************************)
(* SC.CompositeSurface: the subsurfaces collection and its observer.       *)
(***************************************************************************)
\* No build tool state: the user-interface classes stand alone.
NoBuildTools ==
  /\ scope = <<>>
  /\ fileOp = NoFileOp
  /\ fsPackages = <<>>
  /\ packager = [r \in Runs |-> NoPackagerYet]
  /\ found = NoCall
  /\ outputs = [r \in Runs |-> NoOutput]
  /\ tree = NoNodes
  /\ call = NoTreeCall
  /\ disk = NoDisk

\* The composite surface, the surfaces that may be put under it, and the
\* collections that may be assigned to `subsurfaces`: "own" is the array
\* init creates.
TheSurface == "S"

Surfaces == {"s1", "s2"}

Collections == {"own", "c1", "c2"}

\* collection.removeObserver('[]', target, func) and
\* collection.addObserver('[]', target, func): the observers of a key are
\* a set of target and method pairs; one method is registered here, so the
\* targets stand for the pairs.
removeObserver(sf, collection, target) ==
  [sf EXCEPT !.observers[collection] = @ \ {target}]

addObserver(sf, collection, target) ==
  [sf EXCEPT !.observers[collection] = @ \cup {target}]

\* this.get('subsurfaces').invoke('set', 'supersurface', this): a TypeError
\* when subsurfaces is null.
sc_subsurfacesMembersDidChange(sf) ==
  IF sf.subsurfaces = Null THEN [sf EXCEPT !.signal = "TypeError"]
  ELSE [sf EXCEPT !.supersurface =
          [s \in Surfaces |-> IF s \in sf.members[sf.subsurfaces]
                              THEN TheSurface ELSE @[s]]]

\* _sc_subsurfacesDidChange without the teardown of the old observer.
sc_subsurfacesDidChangeKeepingObserver(sf) ==
  IF sf.sc_subsurfaces = sf.subsurfaces THEN sf
  ELSE With([sf EXCEPT !.sc_subsurfaces = sf.subsurfaces],
            LAMBDA saved :
         sc_subsurfacesMembersDidChange(
           IF saved.subsurfaces # Null
           THEN addObserver(saved, saved.subsurfaces, TheSurface)
           ELSE saved))

\* _sc_subsurfacesDidChange, the observer of `subsurfaces`; every
\* collection is enumerable.
sc_subsurfacesDidChange(sf) ==
  IF sf.sc_subsurfaces = sf.subsurfaces THEN sf
  ELSE With([(IF sf.sc_subsurfaces # Null
              THEN removeObserver(sf, sf.sc_subsurfaces, TheSurface)
              ELSE sf) EXCEPT !.sc_subsurfaces = sf.subsurfaces],
            LAMBDA saved :
         sc_subsurfacesMembersDidChange(
           IF saved.subsurfaces # Null
           THEN addObserver(saved, saved.subsurfaces, TheSurface)
           ELSE saved))

\* The '[]' observers of a collection run when its members changed.
membersDidChange(sf, collection) ==
  IF TheSurface \in sf.observers[collection]
  THEN sc_subsurfacesMembersDidChange(sf)
  ELSE sf

\* SC.CompositeSurface.create(): init assigns a new empty array, and the
\* observer of `subsurfaces` runs.  The other collections hold any of the
\* surfaces; no surface has a supersurface yet.
InitSurfaces ==
  /\ \E members \in [Collections -> SUBSET Surfaces] :
       /\ members["own"] = {}
       /\ surface = sc_subsurfacesDidChange(
            [op |-> "init", arg |-> "own", was |-> Null, signal |-> "none",
             subsurfaces |-> "own", sc_subsurfaces |-> Null,
             members |-> members,
             observers |-> [c \in Collections |-> {}],
             supersurface |-> [s \in Surfaces |-> Null]])
  /\ layer = NoLayer
  /\ view = NoView
  /\ NoBuildTools

\* surface.set('subsurfaces', value)
SetSubsurfaces(value) ==
  /\ surface' = sc_subsurfacesDidChange(
       [surface EXCEPT !.op = "set", !.arg = value,
                       !.was = surface.subsurfaces, !.signal = "none",
                       !.subsurfaces = value])
  /\ UNCHANGED <<layer, view, scope, fileOp, fsPackages, packager, found,
                 outputs, tree, call, disk>>

\* collection.pushObject(s)
PushObject(collection, s) ==
  /\ s \notin surface.members[collection]
  /\ surface' = membersDidChange(
       [surface EXCEPT !.op = "pushObject", !.arg = collection,
                       !.was = surface.subsurfaces, !.signal = "none",
                       !.members[collection] = @ \cup {s}],
       collection)
  /\ UNCHANGED <<layer, view, scope, fileOp, fsPackages, packager, found,
                 outputs, tree, call, disk>>

\* collection.removeObject(s)
RemoveObject(collection, s) ==
  /\ s \in surface.members[collection]
  /\ surface' = membersDidChange(
       [surface EXCEPT !.op = "removeObject", !.arg = collection,
                       !.was = surface.subsurfaces, !.signal = "none",
                       !.members[collection] = @ \ {s}],
       collection)
  /\ UNCHANGED <<layer, view, scope, fileOp, fsPackages, packager, found,
                 outputs, tree, call, disk>>

NextSurfaces ==
  \/ \E value \in Collections \cup {Null} : SetSubsurfaces(value)
  \/ \E collection \in Collections : \E s \in Surfaces :
       PushObject(collection, s)
  \/ \E collection \in Collections : \E s \in Surfaces :
       RemoveObject(collection, s)

SpecSurfaces == InitSurfaces /\ [][NextSurfaces]_vars

(***************************************************************************)
(* SC.Layer: the validation of a layout hash.                              *)
(***************************************************************************)
LAYOUT_X_PROPERTIES == <<"left", "right", "centerX", "width">>

LAYOUT_Y_PROPERTIES == <<"top", "bottom", "centerY", "height">>

LAYOUT_MINMAX_PROPERTIES ==
  <<"minLayoutWidth", "minLayoutHeight", "maxLayoutWidth", "maxLayoutHeight",
    "position">>

LAYOUT_ALL_PROPERTIES ==
  LAYOUT_X_PROPERTIES \o LAYOUT_Y_PROPERTIES \o LAYOUT_MINMAX_PROPERTIES

\* JavaScript values: numbers, strings (the sequence of their characters)
\* and values of another type.
Num(n) == [type |-> "number", num |-> n]

Str(chars) == [type |-> "string", str |-> chars]

Bool == [type |-> "boolean"]

\* SC.Layer.LAYOUT_POSITIONS, by the characters of the position's name.
LAYOUT_POSITIONS ==
  (<<"c","e","n","t","e","r">> :> 0)
  @@ (<<"t","o","p">> :> 1)
  @@ (<<"b","o","t","t","o","m">> :> 2)
  @@ (<<"l","e","f","t">> :> 3)
  @@ (<<"r","i","g","h","t">> :> 4)
  @@ (<<"t","o","p"," ","l","e","f","t">> :> 5)
  @@ (<<"t","o","p"," ","r","i","g","h","t">> :> 6)
  @@ (<<"b","o","t","t","o","m"," ","l","e","f","t">> :> 7)
  @@ (<<"b","o","t","t","o","m"," ","r","i","g","h","t">> :> 8)

\* SC.Layer.LAYOUT_POSITIONS[position] === undefined: a value that is no
\* string is looked up by its text, which is no position's name.
layoutModeUndefined(position) ==
  position.type # "string" \/ position.str \notin DOMAIN LAYOUT_POSITIONS

Digits == {"0", "1", "2", "3", "4", "5", "6", "7", "8", "9"}

\* str[a..b] matches \d+ when some is TRUE, \d* otherwise.
DigitsRun(str, a, b, some) ==
  /\ some => a <= b
  /\ \A k \in a..b : str[k] \in Digits

\* str[a..b] matches (\d+)|((\d*\.\d+)|(\d+\.\d*))
NumberAt(str, a, b) ==
  \/ DigitsRun(str, a, b, TRUE)
  \/ \E d \in a..b :
       /\ str[d] = "."
       /\ \/ DigitsRun(str, a, d - 1, FALSE) /\ DigitsRun(str, d + 1, b, TRUE)
          \/ DigitsRun(str, a, d - 1, TRUE) /\ DigitsRun(str, d + 1, b, FALSE)

\* regex.test(str) for /([signs]?number)\%/: the pattern is not anchored, so
\* it may match anywhere in the string.
PercentTest(str, signs) ==
  \E p \in DOMAIN str :
    /\ str[p] = "%"
    /\ \E a \in 1..(p - 1) :
         \/ NumberAt(str, a, p - 1)
         \/ str[a] \in signs /\ NumberAt(str, a + 1, p - 1)

PERCENT_REGEX(str) == PercentTest(str, {"+", "-"})

POSITIVE_PERCENT_REGEX(str) == PercentTest(str, {"+"})

\* The body of the switch for one key of the layout: the message of the
\* TypeError thrown for its value, "none" when the loop goes on.
valueError(key, val) ==
  IF key \in {"left", "right", "centerX", "top", "bottom", "centerY"}
  THEN IF val.type = "number" THEN "none"
       ELSE IF val.type = "string"
            THEN IF PERCENT_REGEX(val.str) THEN "none"
                 ELSE "is not a percentage"
            ELSE "must be either a number or a percentage"
  ELSE IF key \in {"width", "height"}
  THEN IF val.type = "number" /\ val.num >= 0 THEN "none"
       ELSE IF val.type = "string"
            THEN IF POSITIVE_PERCENT_REGEX(val.str) THEN "none"
                 ELSE "is not a positive percentage"
            ELSE "must be either a number or a positive percentage"
  ELSE IF key \in {"minLayoutWidth", "maxLayoutWidth", "minLayoutHeight",
                   "maxLayoutHeight"}
  THEN IF val.type = "number"
       THEN IF val.num >= 0 THEN "none" ELSE "is not a positive number"
       ELSE "must be a positive number"
  ELSE "none"

TypeError(message) == [thrown |-> "TypeError", message |-> message]

\* The keys of the hash that the loop over `ary` pushes onto invalidKeys.
pushed(hash, ary, present) ==
  {key \in DOMAIN hash : (key \in Range(ary)) = present}

\* layer.updateLayoutRules() for the value of layer.get('layout'): what it
\* throws.  invalidKeys is one array for the three loops over the keys.
updateLayoutRules(layout) ==
  IF layout.typeof # "object" THEN TypeError("layout must be a hash")
  ELSE IF layout.isObject
  THEN TypeError("layout must not be a SproutCore object or class")
  ELSE With(pushed(layout.hash, LAYOUT_ALL_PROPERTIES, FALSE),
            LAMBDA invalidKeys :
    IF Cardinality(invalidKeys) > 0
    THEN TypeError("layout contains invalid keys")
    ELSE With(invalidKeys \cup pushed(layout.hash, LAYOUT_X_PROPERTIES, TRUE),
              LAMBDA withX :
      IF Cardinality(withX) > 2
      THEN TypeError("layout has too many horizontal properties")
      ELSE With(withX \cup pushed(layout.hash, LAYOUT_Y_PROPERTIES, TRUE),
                LAMBDA withY :
        IF Cardinality(withY) > 2
        THEN TypeError("layout has too many vertical properties")
        ELSE IF /\ "position" \in DOMAIN layout.hash
                /\ layoutModeUndefined(layout.hash["position"])
        THEN TypeError("layout has an invalid position key")
        ELSE IF \E key \in DOMAIN layout.hash :
                  valueError(key, layout.hash[key]) # "none"
        THEN TypeError("layout value")
        ELSE [thrown |-> "none", message |-> ""])))

\* The keys and values a layout hash is made of here: every layout
\* property and one key that is none, and values of each type.
MaxKeys == 3

LayoutKeys == Range(LAYOUT_ALL_PROPERTIES) \cup {"foo"}

LayoutValues ==
  {Num(10), Num(0 - 5), Str(<<"5","0","%">>), Str(<<"-","5","0","%">>),
   Str(<<"t","o","p">>), Bool}

Hash(hash) == [typeof |-> "object", isObject |-> FALSE, hash |-> hash]

NotAHash == [typeof |-> "string", isObject |-> FALSE, hash |-> <<>>]

AnObject == [typeof |-> "object", isObject |-> TRUE, hash |-> <<>>]

InitLayout ==
  /\ \E layout \in {NotAHash, AnObject}
                     \cup {Hash(hash) : hash \in UNION
                            {[keys -> LayoutValues] :
                               keys \in {ks \in SUBSET LayoutKeys :
                                           Cardinality(ks) <= MaxKeys}}} :
       layer = [op |-> "create", layout |-> layout, thrown |-> "none",
                message |-> ""]
  /\ surface = NoSurface
  /\ view = NoView
  /\ NoBuildTools

\* layer.updateLayoutRules()
UpdateLayoutRules ==
  /\ layer.op = "create"
  /\ layer' = With(updateLayoutRules(layer.layout),
                   LAMBDA did : [layer EXCEPT !.op = "updateLayoutRules",
                                              !.thrown = did.thrown,
                                              !.message = did.message])
  /\ UNCHANGED <<surface, view, scope, fileOp, fsPackages, packager, found,
                 outputs, tree, call, disk>>

NextLayout == UpdateLayoutRules

SpecLayout == InitLayout /\ [][NextLayout]_vars

(***************************************************************************)
(* SC.ContentDisplay: a view that observes its content.                    *)
(***************************************************************************)
TheView == "view"

Contents == {"contentA", "contentB"}

contentDisplayProperties == {"foo", "bar"}

ContentKeys == contentDisplayProperties \cup {"baz"}

\* The mixin stops and begins observing a content object: it removes and
\* adds the view as observer of '*'.
stopObservingContent(v, content) ==
  [v EXCEPT !.observers[content] = @ \ {TheView}]

beginObservingContent(v, content) ==
  [v EXCEPT !.observers[content] = @ \cup {TheView}]

\* The observer of `content` that leaves the view observing the old content.
contentDidChangeKeepingObserver(v) ==
  IF v.content = v.observed THEN v
  ELSE With([v EXCEPT !.observed = v.content],
            LAMBDA now :
         [(IF now.observed # Null
           THEN beginObservingContent(now, now.observed)
           ELSE now) EXCEPT !.layerNeedsUpdate = TRUE])

\* The mixin's observer of `content`: the view stops observing the content
\* it observed, begins observing the new one, and its layer needs update.
contentDidChange(v) ==
  IF v.content = v.observed THEN v
  ELSE With([(IF v.observed # Null
              THEN stopObservingContent(v, v.observed)
              ELSE v) EXCEPT !.observed = v.content],
            LAMBDA now :
         [(IF now.observed # Null
           THEN beginObservingContent(now, now.observed)
           ELSE now) EXCEPT !.layerNeedsUpdate = TRUE])

\* content.hasObserverFor('*')
hasObserverFor(v, content) == v.observers[content] # {}

\* SC.View.create(SC.ContentDisplay, {contentDisplayProperties: ['foo',
\* 'bar'], content: content}), then view.set('layerNeedsUpdate', false).
InitContent ==
  /\ \E content \in Contents \cup {Null} :
       view = [contentDidChange(
                 [op |-> "create", arg |-> content, was |-> Null,
                  content |-> content, observed |-> Null,
                  observers |-> [c \in Contents |-> {}],
                  changed |-> [c \in Contents |-> {}],
                  layerNeedsUpdate |-> FALSE, isDestroyed |-> FALSE])
               EXCEPT !.layerNeedsUpdate = FALSE]
  /\ surface = NoSurface
  /\ layer = NoLayer
  /\ NoBuildTools

\* view.set('content', content)
SetContent(content) ==
  /\ ~view.isDestroyed
  /\ view' = contentDidChange(
       [view EXCEPT !.op = "set", !.arg = content, !.was = view.content,
                    !.content = content])
  /\ UNCHANGED <<surface, layer, scope, fileOp, fsPackages, packager, found,
                 outputs, tree, call, disk>>

\* content.set(key, value): the content has a new value under the key and
\* its observers run; the layer of an observing view needs update when the
\* key is one of its contentDisplayProperties.
SetContentProperty(content, key) ==
  /\ view' = [view EXCEPT !.op = "content.set", !.arg = content,
                          !.was = view.content,
                          !.changed[content] = @ \cup {key},
                          !.layerNeedsUpdate =
                            \/ @
                            \/ /\ TheView \in view.observers[content]
                               /\ key \in contentDisplayProperties]
  /\ UNCHANGED <<surface, layer, scope, fileOp, fsPackages, packager, found,
                 outputs, tree, call, disk>>

\* view.set('layerNeedsUpdate', false)
ClearLayerNeedsUpdate ==
  /\ view.layerNeedsUpdate
  /\ view' = [view EXCEPT !.op = "clear", !.arg = Null,
                          !.was = view.content, !.layerNeedsUpdate = FALSE]
  /\ UNCHANGED <<surface, layer, scope, fileOp, fsPackages, packager, found,
                 outputs, tree, call, disk>>

\* view.destroy(): the view stops observing its content.
Destroy ==
  /\ ~view.isDestroyed
  /\ view' = [(IF view.observed # Null
               THEN stopObservingContent(view, view.observed)
               ELSE view)
              EXCEPT !.op = "destroy", !.arg = Null, !.was = view.content,
                     !.observed = Null, !.isDestroyed = TRUE]
  /\ UNCHANGED <<surface, layer, scope, fileOp, fsPackages, packager, found,
                 outputs, tree, call, disk>>

NextContent ==
  \/ \E content \in Contents \cup {Null} : SetContent(content)
  \/ \E content \in Contents : \E key \in ContentKeys :
       SetContentProperty(content, key)
  \/ ClearLayerNeedsUpdate
  \/ Destroy

SpecContent == InitContent /\ [][NextContent]_vars

(***************************************************************************)
(* Properties.                                                             *)
(***************************************************************************)
Occurrences(seq, x) == Cardinality({i \in DOMAIN seq : seq[i] = x})

\* x occurs in seq, and before every occurrence of y.
Before(seq, x, y) ==
  \E i \in DOMAIN seq : seq[i] = x /\ \A j \in DOMAIN seq : seq[j] = y => i < j

\* The pairs joined by a path of at most k + 1 steps of R.
RECURSIVE Reach(_, _)
Reach(R, k) ==
  IF k = 0 THEN R
  ELSE LET C == Reach(R, k - 1)
           J == {j \in C \X R : j[1][2] = j[2][1]}
       IN C \cup {<<j[1][1], j[2][2]>> : j \in J}

TransitiveClosure(R, nodes) == Reach(R, Cardinality(nodes))

\* The nodes left when those no edge reaches from a node left are removed
\* again and again: the nodes on or behind a cycle of R.
RECURSIVE Peel(_, _)
Peel(R, nodes) ==
  LET free == {n \in nodes : \A e \in R : e[2] = n => e[1] \notin nodes}
  IN IF free = {} THEN nodes ELSE Peel(R, nodes \ free)

Acyclic(R, nodes) == Peel(R, nodes) = {}

\* The files the operation that ran orders: a target drops what it filters.
OpFiles ==
  IF fileOp.op = "Target.orderedJavaScriptFiles"
  THEN SelectSeq(scope, keepForTarget) ELSE scope

\* <<i, j>>: file i of fs declares (sc_require) the path of file j of fs.
DeclaredEdges(fs) ==
  {e \in (DOMAIN fs) \X (DOMAIN fs) : fs[e[2]].name.stem \in Range(fs[e[1]].requires)}

\* The names the files of fs declare that are the path of no file of fs.
UnmatchedNames(fs) ==
  {n \in RequireNames :
     /\ \E i \in DOMAIN fs : n \in Range(fs[i].requires)
     /\ \A j \in DOMAIN fs : fs[j].name.stem # n}

\* The vertex a declared name stands for in the operation that ran.
VertexOf(n) ==
  IF fileOp.op = "Package.orderFiles"
  THEN pathJoin(requirePath(ThePackage), n) ELSE pathJoin(<<>>, n)

HasCore(fs) == \E i \in DOMAIN fs : fs[i].name.stem = "core"

\* C1: when the declared dependencies of a package's files contain no cycle,
\* orderFiles returns every file of the package exactly once, each after the
\* files it declares.  Stated for the packages without an entry file; C3 is
\* about the entry file.
C1_OrderFilesEachOnceAfterDependencies ==
  (fileOp.op = "Package.orderFiles" /\ ~HasCore(scope)
     /\ Acyclic(DeclaredEdges(scope), DOMAIN scope)) =>
    /\ fileOp.error = "none"
    /\ \A i \in DOMAIN scope : Occurrences(fileOp.ret, scope[i]) = 1
    /\ \A e \in DeclaredEdges(scope) :
         Before(fileOp.ret, scope[e[2]], scope[e[1]])

\* C2: when the declared dependencies of the ordered files contain a cycle,
\* Package.orderFiles and Target.orderedJavaScriptFiles fail with the sort's
\* error and return no list, partial or otherwise.
C2_CycleErrorReachesCaller ==
  (fileOp.op # "none" /\ ~Acyclic(DeclaredEdges(OpFiles), DOMAIN OpFiles)) =>
    (fileOp.error = "CycleError" /\ fileOp.ret = <<>>)

\* A target without an entry file whose a.js and b.js declare one another
\* was ordered and the error came out.
C2_Witness ==
  /\ fileOp.op = "Target.orderedJavaScriptFiles"
  /\ ~HasCore(OpFiles)
  /\ \E e \in DeclaredEdges(OpFiles) :
       e[1] # e[2] /\ <<e[2], e[1]>> \in DeclaredEdges(OpFiles)
  /\ fileOp.error = "CycleError"

\* C3: when the scope has an entry file (core), ordering succeeds and the
\* entry file is the first file returned.
C3_EntryFileFirst ==
  (fileOp.op # "none" /\ HasCore(OpFiles)) =>
    /\ fileOp.error = "none"
    /\ Len(fileOp.ret) >= 1
    /\ fileOp.ret[1].name.stem = "core"

\* C4: a file that declares a path matching no file is still returned exactly
\* once; each unmatched path gets exactly one diagnostic; a package without
\* an entry file gets no diagnostic for its absent core path.  Stated for
\* the scopes without an entry file (C3 is about the entry file) whose
\* declared dependencies contain no cycle (C2 is about the cycles).
C4_UnmatchedDependencyKeepsFile ==
  (fileOp.op # "none" /\ ~HasCore(OpFiles)
     /\ Acyclic(DeclaredEdges(OpFiles), DOMAIN OpFiles)) =>
    /\ \A i \in DOMAIN OpFiles :
         (\E n \in UnmatchedNames(OpFiles) : n \in Range(OpFiles[i].requires))
           => fileOp.error = "none" /\ Occurrences(fileOp.ret, OpFiles[i]) = 1
    /\ \A n \in UnmatchedNames(OpFiles) \ {"core"} :
         Occurrences(fileOp.log, VertexOf(n)) = 1
    /\ (fileOp.op = "Package.orderFiles" /\ ~HasCore(OpFiles)) =>
         Occurrences(fileOp.log, corePath(ThePackage)) = 0

\* The package a declared name resolves to in a list of packages, 0 if none.
Resolved(packages, dependency) ==
  LET hit == findPackage(packages, dependency)
  IN IF hit.kind = "package" THEN hit.index ELSE 0

\* <<i, j>>: package i declares a dependency that resolves to package j.
PackageEdges(packages) ==
  {e \in (DOMAIN packages) \X (DOMAIN packages) :
     \E d \in Range(packages[e[1]].dependencies) :
       Resolved(packages, d) = e[2]}

\* The names package i declares that resolve to no package.
UnresolvedNames(packages, i) ==
  {d \in Range(packages[i].dependencies) : Resolved(packages, d) = 0}

\* C5: once orderedPackages has run, every package that a package of type
\* core at construction declares as a dependency has type core.
C5_DirectDependenciesOfCoreAreCore ==
  \A r \in Runs :
    packager[r].status # "none" =>
      \A e \in PackageEdges(packager[r].packages) :
        fsPackages[e[1]].type = "core" => packager[r].packages[e[2]].type = "core"

\* A packager was constructed in which a package that was core on disk
\* declares a package that was not, and that package is core now.
C5_Witness ==
  \E r \in Runs :
    /\ packager[r].status = "constructed"
    /\ \E e \in PackageEdges(packager[r].packages) :
         /\ fsPackages[e[1]].type = "core"
         /\ fsPackages[e[2]].type = "demand"
         /\ packager[r].packages[e[2]].type = "core"

\* C6: once orderedPackages has run, every package reachable from a core
\* package through declared dependencies has type core, whatever the order
\* in which the packages were enumerated.
C6_TransitiveDependenciesOfCoreAreCore ==
  \A r \in Runs :
    packager[r].status = "constructed" =>
      \A e \in TransitiveClosure(PackageEdges(packager[r].packages),
                                 DOMAIN packager[r].packages) :
        packager[r].packages[e[1]].type = "core"
          => packager[r].packages[e[2]].type = "core"

\* C7: findPackage returns the package stored under the key as an id, else
\* the first package whose basename is the key, else nothing; what it
\* returns is a package or nothing.
C7_FindPackageByIdThenBasename ==
  found.run # 0 =>
    LET packages == packager[found.run].packages
        byId     == {i \in DOMAIN packages : packages[i].uuid = found.key}
        byName   == {i \in DOMAIN packages : packages[i].basename = found.key}
    IN /\ found.kind \in {"package", "none"}
       /\ byId # {} => found.kind = "package" /\ found.index \in byId
       /\ (byId = {} /\ byName # {}) =>
            /\ found.kind = "package"
            /\ found.index \in byName
            /\ \A j \in byName : found.index <= j
       /\ (byId = {} /\ byName = {}) => found.kind = "none"

\* C8: when the resolved dependencies of the packages contain no cycle,
\* orderedPackages returns every package exactly once, each after the
\* packages it depends on.
C8_OrderedPackagesEachOnceAfterDependencies ==
  \A r \in Runs :
    (packager[r].status # "none"
       /\ Acyclic(PackageEdges(packager[r].packages),
                  DOMAIN packager[r].packages)) =>
      /\ packager[r].status = "constructed"
      /\ \A i \in DOMAIN packager[r].packages :
           Occurrences(packager[r].ordered, i) = 1
      /\ \A e \in PackageEdges(packager[r].packages) :
           Before(packager[r].ordered, e[2], e[1])

\* Three packages were ordered, the first enumerated depending on the third
\* through the second, so that the order returned is the enumeration
\* reversed.
C8_Witness ==
  \E r \in Runs :
    /\ packager[r].status = "constructed"
    /\ Len(packager[r].packages) = 3
    /\ {<<1, 2>>, <<2, 3>>} \subseteq PackageEdges(packager[r].packages)
    /\ packager[r].ordered = <<3, 2, 1>>

\* C9: when a package declares a name that findPackage cannot resolve,
\* orderedPackages logs a diagnostic for it, adds no edge to the graph for
\* it, and still returns the declaring package exactly once.
C9_UnresolvedDependencyAddsNoEdge ==
  \A r \in Runs :
    packager[r].status = "constructed" =>
      \A i \in DOMAIN packager[r].packages :
        \A d \in UnresolvedNames(packager[r].packages, i) :
          /\ \E k \in DOMAIN packager[r].log :
               packager[r].log[k] = [msg |-> "couldn't find dependency",
                                     package |-> d]
          /\ \A e \in packager[r].g.edges :
               e[2] = packager[r].packages[i].nodeName =>
                 \E j \in DOMAIN packager[r].packages :
                   packager[r].packages[j].uuid = e[1]
          /\ Occurrences(packager[r].ordered, i) = 1

\* C10: two independent constructions over the same unchanged tree yield the
\* same ordered file list and the same package manifest text, ids included.
C10_IndependentBuildsAgree ==
  (outputs[1].read /\ outputs[2].read) =>
    /\ outputs[1].files = outputs[2].files
    /\ outputs[1].manifest = outputs[2].manifest

\* <<p, c>>: node p holds node c.
ChildEdges(t) ==
  {e \in (DOMAIN t) \X (DOMAIN t) :
     \E i \in DOMAIN t[e[1]].children : t[e[1]].children[i].node = e[2]}

\* There is a path of children from node `from` to node `to` whose inner
\* nodes all have a kind in `through`.
ReachesThrough(t, from, to, through) ==
  <<from, to>> \in
    TransitiveClosure({e \in ChildEdges(t) :
                         e[1] = from \/ t[e[1]].kind \in through},
                      DOMAIN t)

\* Node f lies under a node, other than `from`, of a kind in `kinds` that
\* lies under `from`.
LiesUnderNested(t, from, f, kinds) ==
  \E m \in DOMAIN t :
    /\ m # from
    /\ t[m].kind \in kinds
    /\ ReachesThrough(t, from, m, Kinds)
    /\ ReachesThrough(t, m, f, Kinds)

\* C11: for every target T, T.files contains every file reachable from T
\* through directories only, and no file that lies under a nested app,
\* framework, localization, packager or package.
C11_FilesAreOwnSubtree ==
  (call.op = "files" /\ call.signal = "none") =>
    \A f \in DOMAIN tree :
      tree[f].kind = "File" =>
        /\ ReachesThrough(tree, call.node, f, {"Directory"})
             => f \in Range(call.ret)
        /\ f \in Range(call.ret)
             => ~LiesUnderNested(tree, call.node, f,
                                 {"App", "Framework", "Localization",
                                  "Packager", "Package"})

\* The files of `out` that `keep` keeps, in order.
Owned(out, owners) ==
  LET keep(f) == f.owner \in owners IN SelectSeq(out, keep)

\* The ordered files of the core packages among ordered[i..], in order.
RECURSIVE CoreBundle(_, _, _)
CoreBundle(packages, ordered, i) ==
  IF i > Len(ordered) THEN <<>>
  ELSE (IF packages[ordered[i]].type = "core"
        THEN orderFiles(packages[ordered[i]], packages[ordered[i]].files).ret
        ELSE <<>>)
       \o CoreBundle(packages, ordered, i + 1)

FrameworksNamed(t, name) ==
  {g \in DOMAIN t :
     /\ t[g].kind = "Framework"
     /\ \E p \in DOMAIN t : \E i \in DOMAIN t[p].children :
          t[p].children[i] = [key |-> name, node |-> g]}

\* C13: in Target.orderedFrameworks, for every framework F in the result
\* and every name F lists that names a framework of the project, that
\* framework occurs in the result before F; names that match no framework
\* are skipped without error.  Stated for the names that name a framework
\* other than F itself.
C13_FrameworkDependenciesPrecede ==
  (call.op = "orderedFrameworks") =>
    /\ call.signal = "none"
    /\ \A i \in DOMAIN call.ret :
         \A k \in DOMAIN tree[call.ret[i]].frameworks :
           LET named == FrameworksNamed(tree, tree[call.ret[i]].frameworks[k])
           IN (named # {} /\ call.ret[i] \notin named)
                => \E j \in 1..(i - 1) : call.ret[j] \in named

\* C14: immediately after a project is constructed, every node reachable
\* from it by traversal has its project back-reference equal to that
\* project.
C14_EveryNodeKnowsItsProject ==
  (call.op = "Project.init" /\ call.signal = "none") =>
    \A n \in DOMAIN tree :
      ReachesThrough(tree, TheProject, n, Kinds)
        => tree[n].project = TheProject

\* C15: once a node has a parentNode and a nodeName, no later traversal,
\* from whatever root and under whatever key it reaches the node, changes
\* either of them.
C15_FirstWriteWins ==
  [][\A n \in DOMAIN tree :
       /\ tree[n].parentNode # NoNode
            => tree'[n].parentNode = tree[n].parentNode
       /\ ~Falsy(tree[n].nodeName)
            => tree'[n].nodeName = tree[n].nodeName]_vars

\* A node that two properties hold was named by the first of them, and a
\* later search that started at the project has visited it again.
C15_Witness ==
  /\ call.op \in FindMethods
  /\ call.node = TheProject
  /\ \E n \in DOMAIN tree : \E p, q \in DOMAIN tree :
       \E i \in DOMAIN tree[p].children : \E j \in DOMAIN tree[q].children :
         /\ tree[p].children[i].node = n
         /\ tree[q].children[j].node = n
         /\ tree[p].children[i].key # tree[q].children[j].key
         /\ tree[n].nodeName = tree[p].children[i].key
         /\ tree[n].parentNode = p
         /\ Occurrences(call.seen, n) >= 2

\* The kind of node a find method looks for.
KindSought(method) ==
  CASE method = "findApp" -> "App"
    [] method = "findFramework" -> "Framework"
    [] method = "findProxy" -> "Proxy"

\* The visits [key, node] of a traversal of everything below node n, in
\* order; a descent that can only be on a cycle of children ends the list
\* with the visit [key |-> "overflow", node |-> NoNode].
RECURSIVE Walk(_, _, _)
RECURSIVE WalkFrom(_, _, _, _)

Walk(t, n, depth) == WalkFrom(t, n, 1, depth)

WalkFrom(t, n, i, depth) ==
  IF i > Len(t[n].children) THEN <<>>
  ELSE LET c == t[n].children[i]
           below == IF depth > Len(t)
                    THEN <<[key |-> "overflow", node |-> NoNode]>>
                    ELSE <<c>> \o Walk(t, c.node, depth + 1)
       IN IF below # <<>> /\ below[Len(below)].node = NoNode
          THEN below
          ELSE below \o WalkFrom(t, n, i + 1, depth)

\* The visits at which a search for `kind` under key `str` ends.
Stops(t, walk, kind, str) ==
  {i \in DOMAIN walk :
     \/ walk[i].node = NoNode
     \/ (t[walk[i].node].kind = kind /\ walk[i].key = str)}

RECURSIVE ParentChain(_, _)
ParentChain(t, n) ==
  IF t[n].parentNode = NoNode THEN <<>>
  ELSE <<t[n].parentNode>> \o ParentChain(t, t[n].parentNode)

\* The nearest framework or app among the ancestors of n, NoNode if none.
NearestRoot(t, n) ==
  LET chain == ParentChain(t, n)
      roots == {i \in DOMAIN chain : t[chain[i]].kind \in {"Framework", "App"}}
  IN IF roots = {} THEN NoNode
     ELSE chain[CHOOSE i \in roots : \A j \in roots : i <= j]

\* C20: the root-node name of a package, as Package.rootNode and as the
\* manifest's rootNode field, is the nodeName of the nearest ancestor that
\* is a framework or an app, and is null when there is no such ancestor.
C20_RootNodeIsNearestFrameworkOrApp ==
  (call.op \in {"rootNode", "manifest.rootNode"}) =>
    LET root == NearestRoot(tree, call.node)
    IN /\ call.signal = "none"
       /\ IF root = NoNode
          THEN call.text = Null /\ ~call.quoted
          ELSE /\ call.text = tree[root].nodeName
               /\ call.quoted = (call.op = "manifest.rootNode")

\* C19: a manifest reports isLoaded and isReady as true exactly for the
\* packages that are core after promotion, and the files of a package are
\* in the target's core bundle if and only if its entry has isLoaded true.
C19_ManifestLoadedIffInCoreBundle ==
  \A r \in Runs :
    (outputs[r].read /\ outputs[r].error = "none") =>
      /\ Len(outputs[r].manifest) = Len(packager[r].ordered)
      /\ \A idx \in DOMAIN outputs[r].manifest :
           LET entry == outputs[r].manifest[idx]
               package == packager[r].packages[packager[r].ordered[idx]]
               bundled == \E i \in DOMAIN outputs[r].files :
                            outputs[r].files[i].owner = package.basename
           IN /\ entry.key = package.nodeName
              /\ entry.isLoaded = (package.type = "core")
              /\ entry.isReady = (package.type = "core")
              /\ package.files # <<>> => (bundled <=> entry.isLoaded)

\* A manifest was read that reports a package promoted to core as loaded,
\* with its files in the bundle, next to a core package.
C19_Witness ==
  \E r \in Runs :
    /\ outputs[r].read /\ outputs[r].error = "none"
    /\ \E idx \in DOMAIN outputs[r].manifest :
         \E k \in DOMAIN fsPackages :
           /\ packager[r].ordered[idx] = k
           /\ fsPackages[k].type # "core"
           /\ fsPackages[k].files # <<>>
           /\ outputs[r].manifest[idx].isLoaded
           /\ outputs[r].manifest[idx].isReady
           /\ \E i \in DOMAIN outputs[r].files :
                outputs[r].files[i].owner = fsPackages[k].basename

\* The steps of the build log at which buildApp had an app to build.
AppSteps == {i \in DOMAIN call.log : call.log[i].name # "project"
                                     /\ call.log[i].app # NoNode}

\* The script buildApp writes for the i-th step of the log.
ScriptOf(i) ==
  LET app == call.log[i].app
      here(file) == existsSync(disk, file)
  IN [path |-> BuildPath \o <<tree[app].nodeName, "application.js">>,
      content |-> Script(tree[app].nodeName,
                         SelectSeq(call.log[i].sources, here))]

\* C17: if creating an output directory fails while build is materializing
\* an app, the whole build is aborted: no app visited later is built, the
\* project's index document is not written, and the output of the apps
\* built earlier is left as it was written.
C17_MkdirFailureAbortsBuild ==
  (call.op = "build") =>
    \A i \in AppSteps :
      call.log[i].outcome = "mkdir failed" =>
        /\ \A j \in DOMAIN call.log : j > i => call.log[j].outcome # "written"
        /\ \A f \in disk.files : f.content.of # "project"
        /\ \A j \in AppSteps :
             (j < i /\ call.log[j].outcome = "written")
               => ScriptOf(j) \in disk.files

\* Where a file of the sources of app stands: with the frameworks (1),
\* the app's own files (2) or the files of the app's core packages (3).
Part(app, file) ==
  IF file.owner = NodeOwner(app) THEN 2
  ELSE IF file.owner = PackageOwner(app) THEN 3
  ELSE 1

OpGraph ==
  IF fileOp.op = "Package.orderFiles"
  THEN packageGraph(ThePackage, scope, [g |-> NewGraph, map |-> {}], 1).g
  ELSE targetGraph(OpFiles, [g |-> NewGraph, map |-> {}], 1).g

\* C24: the edges orderFiles and orderedJavaScriptFiles add from the entry
\* vertex go to every other vertex only: no edge from a vertex to itself
\* is added to the graph, also when the scope contains its entry file.
\* Stated for the scopes in which no file declares its own path.
C24_NoEdgeFromVertexToItself ==
  (/\ fileOp.op # "none"
   /\ \A e \in DeclaredEdges(OpFiles) :
        OpFiles[e[1]].name.stem # OpFiles[e[2]].name.stem) =>
    \A e \in OpGraph.edges : e[1] # e[2]

\* C25: whenever build returns, on the success path and on the path where
\* the build directory cannot be created, the project's isBuilding flag is
\* false again.
C25_IsBuildingClearedOnReturn ==
  (call.op = "build" /\ call.signal = "none") => ~call.isBuilding

\* C26: orderedFrameworks contains each framework at most once, also when
\* the same framework is named by several of the target's dependencies.
C26_EachFrameworkAtMostOnce ==
  (call.op = "orderedFrameworks") =>
    \A i, j \in DOMAIN call.ret : call.ret[i] = call.ret[j] => i = j

\* C27: orderedFrameworks terminates for every finite project tree and
\* every assignment of framework names, also with frameworks that name each
\* other or themselves: the nesting of processFramework stays within the
\* number of nodes and no call overflows the stack.
C27_OrderedFrameworksTerminates ==
  (call.op = "orderedFrameworks") => call.signal = "none"

\* orderedFrameworks returned for a target that lists a framework which
\* lists its own name and holds a framework that lists the name of the
\* framework holding it; both are in the result.
C27_Witness ==
  /\ call.op = "orderedFrameworks"
  /\ call.signal = "none"
  /\ \E f, g \in Range(call.ret) :
       /\ f # g
       /\ tree[g].parentNode = f
       /\ \E i \in DOMAIN tree[f].frameworks :
            f \in FrameworksNamed(tree, tree[f].frameworks[i])
       /\ \E i \in DOMAIN tree[g].frameworks :
            f \in FrameworksNamed(tree, tree[g].frameworks[i])

\* C23: after any sequence of assignments to subsurfaces the members-changed
\* observer of the composite surface is registered on exactly the
\* collection now assigned and on none assigned before; assigning the
\* collection that is already assigned changes nothing of the surface, its
\* collections or their observers.
C23_ObserverOnCurrentCollectionOnly ==
  /\ [](surface.op # "none" =>
          \A c \in Collections :
            TheSurface \in surface.observers[c] <=> c = surface.subsurfaces)
  /\ [][(surface.op # "none" /\ surface'.op = "set"
         /\ surface'.arg = surface.subsurfaces) =>
          /\ surface'.observers = surface.observers
          /\ surface'.members = surface.members
          /\ surface'.supersurface = surface.supersurface
          /\ surface'.subsurfaces = surface.subsurfaces
          /\ surface'.sc_subsurfaces = surface.sc_subsurfaces]_vars

\* A second collection was assigned in place of a first one that held a
\* surface: the observer is on the second and S became the supersurface of
\* its members.
C23_Witness ==
  /\ surface.op = "set"
  /\ surface.was \in Collections \ {"own"}
  /\ surface.arg \in Collections \ {"own", surface.was}
  /\ surface.members[surface.was] # {}
  /\ surface.observers[surface.arg] = {TheSurface}
  /\ surface.observers[surface.was] = {}

\* C28: once the change handlers of the composite surface S have run, a
\* surface has S as its supersurface exactly when it is a member of the
\* collection now assigned to S's subsurfaces.
C28_SupersurfaceIffMember ==
  (surface.op # "none" /\ surface.signal = "none") =>
    \A s \in Surfaces :
      surface.supersurface[s] = TheSurface
        <=> (surface.subsurfaces # Null
             /\ s \in surface.members[surface.subsurfaces])

\* The keys of the hash among the properties of one axis.
AxisKeys(hash, ary) == DOMAIN hash \cap Range(ary)

\* Every key is a layout property and every value is one the validation of
\* its key accepts: a position name, a number or percentage for an offset,
\* a number not below zero or a percentage for a size, a number not below
\* zero for a minimum or maximum.
ValidKeysAndValues(hash) ==
  /\ DOMAIN hash \subseteq Range(LAYOUT_ALL_PROPERTIES)
  /\ \A key \in DOMAIN hash :
       IF key = "position" THEN ~layoutModeUndefined(hash[key])
       ELSE valueError(key, hash[key]) = "none"

\* C22: updateLayoutRules throws no TypeError for a layout hash with only
\* valid keys, valid values, at most two horizontal and at most two
\* vertical properties, and throws a TypeError when either axis has more
\* than two properties.
C22_TwoPropertiesPerAxisAccepted ==
  (layer.op = "updateLayoutRules" /\ layer.layout.typeof = "object"
   /\ ~layer.layout.isObject) =>
    LET hash == layer.layout.hash
        nx == Cardinality(AxisKeys(hash, LAYOUT_X_PROPERTIES))
        ny == Cardinality(AxisKeys(hash, LAYOUT_Y_PROPERTIES))
    IN /\ (ValidKeysAndValues(hash) /\ nx <= 2 /\ ny <= 2) =>
            layer.thrown = "none"
       /\ (nx > 2 \/ ny > 2) => layer.thrown = "TypeError"

====
